---- MODULE Spec2Model ----
(***************************************************************************)
(* Model of the zod-opts command line tokenizer (internal_parser.ts), the  *)
(* candidate validator (validator.ts) and the result assembly of the       *)
(* parser helper.  A string is a sequence of one-character strings, so     *)
(* that prefix tests, splitting at "=" and regular expressions are         *)
(* computed as the code computes them.                                     *)
(***************************************************************************)
EXTENDS Integers, Sequences, FiniteSets, TLC

\* Longest argument list explored.
MaxArgs == 3

-----------------------------------------------------------------------------
(* String helpers (JavaScript String methods used by the code)             *)

Digits == {"0", "1", "2", "3", "4", "5", "6", "7", "8", "9"}

LineTerminators == {"\n", "\r"}

\* String.prototype.startsWith
startsWith(s, p) == Len(s) >= Len(p) /\ SubSeq(s, 1, Len(p)) = p

\* String.prototype.slice(n) with n >= 0 (0-based start)
slice(s, n) == SubSeq(s, n + 1, Len(s))

\* Array.prototype.findIndex, 1-based; 0 when no element satisfies P
findIndex(seq, P(_)) ==
    IF \E i \in 1..Len(seq) : P(seq[i])
    THEN CHOOSE i \in 1..Len(seq) : P(seq[i]) /\ \A j \in 1..(i - 1) : ~P(seq[j])
    ELSE 0

\* index of the first "=" of s, 0 when there is none
indexOfEq(s) == findIndex(s, LAMBDA c : c = "=")

\* arg.split("=")[0]
splitEq0(s) == IF indexOfEq(s) = 0 THEN s ELSE SubSeq(s, 1, indexOfEq(s) - 1)

\* const name = value; body(name): a value computed once and named
bind(value, body(_)) == body(value)

\* Array.prototype.filter
filter(seq, P(_)) == SelectSeq(seq, P)

\* Array.prototype.flat over a sequence of sequences
RECURSIVE flat(_)
flat(seqs) == IF seqs = <<>> THEN <<>> ELSE Head(seqs) \o flat(Tail(seqs))

isDigits(s) == \A i \in 1..Len(s) : s[i] \in Digits

\* Unsigned decimal literal: D+ | D+ "." D* | "." D+
isUnsignedDecimal(s) ==
    LET dot == findIndex(s, LAMBDA c : c = ".")
    IN  IF dot = 0 THEN Len(s) > 0 /\ isDigits(s)
        ELSE /\ isDigits(SubSeq(s, 1, dot - 1))
             /\ isDigits(SubSeq(s, dot + 1, Len(s)))
             /\ Len(s) > 1

\* isNumericValue: !isNaN(Number(str)) && !isNaN(parseFloat(str)), for strings
\* made of digits, ".", "+", "-", "=" and letters other than those of the
\* exponent, hexadecimal and Infinity notations (the alphabet of the model).
isNumericValue(str) ==
    IF str # <<>> /\ Head(str) \in {"+", "-"}
    THEN isUnsignedDecimal(Tail(str))
    ELSE isUnsignedDecimal(str)

digitValue(c) ==
    CASE c = "0" -> 0 [] c = "1" -> 1 [] c = "2" -> 2 [] c = "3" -> 3
      [] c = "4" -> 4 [] c = "5" -> 5 [] c = "6" -> 6 [] c = "7" -> 7
      [] c = "8" -> 8 [] c = "9" -> 9

RECURSIVE digitsValue(_)
digitsValue(s) ==
    IF s = <<>> THEN 0
    ELSE 10 * digitsValue(SubSeq(s, 1, Len(s) - 1)) + digitValue(s[Len(s)])

RECURSIVE normalizeDecimal(_, _)
normalizeDecimal(m, e) ==
    IF e > 0 /\ m % 10 = 0 THEN normalizeDecimal(m \div 10, e - 1) ELSE <<m, e>>

\* parseFloat on a string accepted by isNumericValue: the number m / 10^e as
\* the pair <<m, e>> in lowest terms of 10.
parseFloat(str) ==
    LET neg  == str # <<>> /\ Head(str) = "-"
        body == IF str # <<>> /\ Head(str) \in {"+", "-"} THEN Tail(str) ELSE str
        dot  == findIndex(body, LAMBDA c : c = ".")
        ip   == IF dot = 0 THEN body ELSE SubSeq(body, 1, dot - 1)
        fp   == IF dot = 0 THEN <<>> ELSE SubSeq(body, dot + 1, Len(body))
        m    == digitsValue(ip \o fp)
    IN  normalizeDecimal(IF neg THEN 0 - m ELSE m, Len(fp))

-----------------------------------------------------------------------------
(* Data model: error.ts, type.ts, internal_parser.ts                       *)

\* an alias that was not declared (alias?: string); declared aliases are
\* non-empty (OptionAliasRegexStr)
undefinedAlias == <<>>

\* Candidate.value: string | string[] | undefined
undefinedValue == [k |-> "undefined", s |-> <<>>, a |-> <<>>]
stringValue(str) == [k |-> "string", s |-> str, a |-> <<>>]
arrayValue(arr) == [k |-> "array", s |-> <<>>, a |-> arr]

\* no exception thrown
NoError == [class |-> "none", message |-> "", arg |-> <<>>, commandName |-> <<>>]

\* new ParseError(message): the message is a template and arg the text
\* interpolated into it
ParseError(message, arg) ==
    [class |-> "ParseError", message |-> message, arg |-> arg, commandName |-> <<>>]

\* new Error(message)
PlainError(message, arg) ==
    [class |-> "Error", message |-> message, arg |-> arg, commandName |-> <<>>]

noOption ==
    [name |-> <<>>, type |-> "none", alias |-> undefinedAlias, required |-> FALSE,
     isArray |-> FALSE, hasDefault |-> FALSE, defaultValue |-> FALSE]

-----------------------------------------------------------------------------
(* Tokenizer: internal_parser.ts                                           *)

optionRequiresValue(option) == option.type # "boolean"

findOptionByPrefixedName(options, prefixedName) ==
    LET direct == findIndex(options, LAMBDA opt :
                      \/ <<"-", "-">> \o opt.name = prefixedName
                      \/ IF opt.alias # undefinedAlias
                         THEN <<"-">> \o opt.alias = prefixedName
                         ELSE FALSE)
        prefix == <<"-", "-", "n", "o", "-">>
        negativeMatch ==
            /\ startsWith(prefixedName, prefix)
            /\ Len(prefixedName) > Len(prefix)
            /\ \A i \in (Len(prefix) + 1)..Len(prefixedName) :
                   prefixedName[i] \notin LineTerminators
        negativeName == slice(prefixedName, Len(prefix))
        negative == findIndex(options, LAMBDA opt : opt.name = negativeName)
    IN  IF direct # 0
        THEN [found |-> TRUE, option |-> options[direct], isNegative |-> FALSE]
        ELSE IF ~negativeMatch
        THEN [found |-> FALSE, option |-> noOption, isNegative |-> FALSE]
        ELSE IF negative # 0
        THEN [found |-> TRUE, option |-> options[negative], isNegative |-> TRUE]
        ELSE [found |-> FALSE, option |-> noOption, isNegative |-> FALSE]

\* validateOptionArguments that gives an array-kind option one token only
validateOptionArgumentsOneToken(option, isNegative, optionArgCandidates, isForcedValue) ==
    IF optionRequiresValue(option) /\ Len(optionArgCandidates) = 0
    THEN [ok |-> FALSE, message |-> "Option '<name>' needs value: <name>",
          value |-> undefinedValue, shift |-> 0]
    ELSE IF isForcedValue /\ ~optionRequiresValue(option)
    THEN [ok |-> FALSE, message |-> "Boolean option '<name>' does not need value: <name>",
          value |-> undefinedValue, shift |-> 0]
    ELSE IF isNegative /\ option.type # "boolean"
    THEN [ok |-> FALSE,
          message |-> "Non boolean option '<name>' does not accept --no- prefix: <name>",
          value |-> undefinedValue, shift |-> 0]
    ELSE IF ~optionRequiresValue(option)
    THEN [ok |-> TRUE, message |-> "", value |-> undefinedValue, shift |-> 0]
    ELSE IF option.isArray
    THEN [ok |-> TRUE, message |-> "", value |-> arrayValue(<<optionArgCandidates[1]>>),
          shift |-> 1]
    ELSE [ok |-> TRUE, message |-> "", value |-> stringValue(optionArgCandidates[1]),
          shift |-> 1]

validateOptionArguments(option, isNegative, optionArgCandidates, isForcedValue) ==
    IF optionRequiresValue(option) /\ Len(optionArgCandidates) = 0
    THEN [ok |-> FALSE, message |-> "Option '<name>' needs value: <name>",
          value |-> undefinedValue, shift |-> 0]
    ELSE IF isForcedValue /\ ~optionRequiresValue(option)
    THEN [ok |-> FALSE, message |-> "Boolean option '<name>' does not need value: <name>",
          value |-> undefinedValue, shift |-> 0]
    ELSE IF isNegative /\ option.type # "boolean"
    THEN [ok |-> FALSE,
          message |-> "Non boolean option '<name>' does not accept --no- prefix: <name>",
          value |-> undefinedValue, shift |-> 0]
    ELSE IF ~optionRequiresValue(option)
    THEN [ok |-> TRUE, message |-> "", value |-> undefinedValue, shift |-> 0]
    ELSE IF option.isArray
    THEN [ok |-> TRUE, message |-> "", value |-> arrayValue(optionArgCandidates),
          shift |-> Len(optionArgCandidates)]
    ELSE [ok |-> TRUE, message |-> "", value |-> stringValue(optionArgCandidates[1]),
          shift |-> 1]

\* prefixedName.replace(/^-+/, "")
RECURSIVE removeOptionPrefix(_)
removeOptionPrefix(prefixedName) ==
    IF prefixedName # <<>> /\ Head(prefixedName) = "-"
    THEN removeOptionPrefix(Tail(prefixedName))
    ELSE prefixedName

optionResult(error, candidates, shift) ==
    [error |-> error, candidates |-> candidates, shift |-> shift]

Candidate(name, value, isNegative) ==
    [name |-> name, value |-> value, isNegative |-> isNegative]

parseLongNameOptionArgument(options, arg, optionArgCandidates) ==
    bind(indexOfEq(arg), LAMBDA eq :
    LET \* /^(?<prefixedName>[^=]+)(=(?<forcedValue>.*))?$/
        match == /\ arg # <<>>
                 /\ eq # 1
                 /\ eq # 0 => \A i \in (eq + 1)..Len(arg) : arg[i] \notin LineTerminators
        prefixedName == IF eq = 0 THEN arg ELSE SubSeq(arg, 1, eq - 1)
        hasForcedValue == eq # 0
        forcedValue == slice(arg, eq)
    IN  IF ~match
        THEN optionResult(PlainError("Invalid option: <arg>", arg), <<>>, 0)
        ELSE
    bind(findOptionByPrefixedName(options, prefixedName), LAMBDA result :
        IF ~result.found
        THEN optionResult(ParseError("Invalid option: <arg>",
                                     removeOptionPrefix(prefixedName)), <<>>, 0)
        ELSE
    bind(validateOptionArguments(result.option, result.isNegative,
             IF hasForcedValue THEN <<forcedValue>> ELSE optionArgCandidates,
             hasForcedValue), LAMBDA validateResult :
        IF ~validateResult.ok
        THEN optionResult(ParseError(validateResult.message, result.option.name), <<>>, 0)
        ELSE optionResult(NoError,
                 <<Candidate(result.option.name, validateResult.value, result.isNegative)>>,
                 IF hasForcedValue THEN 1 ELSE validateResult.shift + 1))))

\* the for loop of parseShortNameMultipleOptionArgument from 1-based position i
RECURSIVE parseShortNameMultipleLoop(_, _, _, _, _, _)
parseShortNameMultipleLoop(options, text, optionArgCandidates, i, candidates, shift) ==
    IF i > Len(text) THEN optionResult(NoError, candidates, shift)
    ELSE
    bind(findOptionByPrefixedName(options, <<"-", text[i]>>), LAMBDA result :
    LET c == text[i]
        option == result.option
        isLast == i = Len(text)
        isFirst == i = 1
    IN  IF ~result.found
        THEN optionResult(ParseError("Invalid option: <arg>", <<c>>), <<>>, 0)
        ELSE IF optionRequiresValue(option)
        THEN IF isLast /\ Len(optionArgCandidates) # 0
             THEN IF option.isArray
                  THEN optionResult(NoError,
                           Append(candidates,
                               Candidate(option.name, arrayValue(optionArgCandidates), FALSE)),
                           Len(optionArgCandidates) + 1)
                  ELSE optionResult(NoError,
                           Append(candidates,
                               Candidate(option.name, stringValue(optionArgCandidates[1]), FALSE)),
                           2)
             ELSE IF isFirst
             THEN optionResult(NoError,
                      Append(candidates,
                          Candidate(option.name, stringValue(slice(text, 1)), FALSE)),
                      1)
             ELSE parseShortNameMultipleLoop(options, text, optionArgCandidates,
                                             i + 1, candidates, shift)
        ELSE parseShortNameMultipleLoop(options, text, optionArgCandidates, i + 1,
                 Append(candidates, Candidate(option.name, undefinedValue, FALSE)), shift))

\* parseShortNameMultipleOptionArgument whose loop starts at the second character
parseShortNameMultipleOptionArgumentFromSecond(options, arg, optionArgCandidates) ==
    parseShortNameMultipleLoop(options, slice(arg, 1), optionArgCandidates, 2, <<>>, 1)

parseShortNameMultipleOptionArgument(options, arg, optionArgCandidates) ==
    parseShortNameMultipleLoop(options, slice(arg, 1), optionArgCandidates, 1, <<>>, 1)

\* parseShortNameOptionArgument that expands every token into a cluster
parseShortNameOptionArgumentExpanding(options, arg, optionArgCandidates) ==
    IF ~(arg # <<>> /\ indexOfEq(arg) = 0)
    THEN optionResult(ParseError("Invalid option: <arg>", arg), <<>>, 0)
    ELSE parseShortNameMultipleOptionArgument(options, arg, optionArgCandidates)

parseShortNameOptionArgument(options, arg, optionArgCandidates) ==
    \* /^(?<prefixedName>[^=]+)$/
    IF ~(arg # <<>> /\ indexOfEq(arg) = 0)
    THEN optionResult(ParseError("Invalid option: <arg>", arg), <<>>, 0)
    ELSE
    bind(findOptionByPrefixedName(options, arg), LAMBDA result :
        IF ~result.found
        THEN parseShortNameMultipleOptionArgument(options, arg, optionArgCandidates)
        ELSE
    bind(validateOptionArguments(result.option, FALSE, optionArgCandidates, FALSE),
         LAMBDA validateResult :
        IF ~validateResult.ok
        THEN optionResult(ParseError(validateResult.message, result.option.name), <<>>, 0)
        ELSE optionResult(NoError,
                 <<Candidate(result.option.name, validateResult.value, FALSE)>>,
                 validateResult.shift + 1)))

parseOptionArgument(options, arg, optionArgCandidates) ==
    IF startsWith(arg, <<"-", "-">>)
    THEN parseLongNameOptionArgument(options, arg, optionArgCandidates)
    ELSE parseShortNameOptionArgument(options, arg, optionArgCandidates)

\* likesOptionArg without the test of a numeric remainder
likesOptionArgAnyDash(arg, options) ==
    bind(splitEq0(arg), LAMBDA normalizedArg :
        IF arg = <<"-", "-">> THEN FALSE
        ELSE IF startsWith(normalizedArg, <<"-", "-">>) THEN TRUE
        ELSE IF \E n \in 1..Len(options) :
                    IF options[n].alias # undefinedAlias
                    THEN <<"-">> \o options[n].alias = normalizedArg
                    ELSE FALSE
        THEN TRUE
        ELSE IF ~startsWith(normalizedArg, <<"-">>) THEN FALSE
        ELSE TRUE)

likesOptionArg(arg, options) ==
    bind(splitEq0(arg), LAMBDA normalizedArg :
        IF arg = <<"-", "-">> THEN FALSE
        ELSE IF startsWith(normalizedArg, <<"-", "-">>) THEN TRUE
        ELSE IF \E n \in 1..Len(options) :
                    IF options[n].alias # undefinedAlias
                    THEN <<"-">> \o options[n].alias = normalizedArg
                    ELSE FALSE
        THEN TRUE
        ELSE IF ~startsWith(normalizedArg, <<"-">>) THEN FALSE
        ELSE IF isNumericValue(slice(normalizedArg, 1)) THEN FALSE
        ELSE TRUE)

\* pickPositionalArguments that stops at an option-like token after "--" too
pickPositionalArgumentsStopping(targets, options, hasDoubleDash) ==
    bind(findIndex(targets, LAMBDA arg : likesOptionArg(arg, options)),
         LAMBDA foundIndex :
        IF foundIndex = 0 THEN [positionalArgs |-> targets, shift |-> Len(targets)]
        ELSE [positionalArgs |-> SubSeq(targets, 1, foundIndex - 1),
              shift |-> foundIndex - 1])

pickPositionalArguments(targets, options, hasDoubleDash) ==
    IF hasDoubleDash THEN [positionalArgs |-> targets, shift |-> Len(targets)]
    ELSE
    bind(findIndex(targets, LAMBDA arg : likesOptionArg(arg, options)),
         LAMBDA foundIndex :
        IF foundIndex = 0 THEN [positionalArgs |-> targets, shift |-> Len(targets)]
        ELSE [positionalArgs |-> SubSeq(targets, 1, foundIndex - 1),
              shift |-> foundIndex - 1])

PositionalCandidate(name, value) == [name |-> name, value |-> value]

\* the while loop of parsePositionalArguments from 1-based position i
RECURSIVE parsePositionalLoop(_, _, _, _)
parsePositionalLoop(args, positionalArgs, i, candidates) ==
    IF i > Len(args) THEN [error |-> NoError, candidates |-> candidates]
    ELSE IF i > Len(positionalArgs)
    THEN [error |-> ParseError("Too many positional arguments", <<>>),
          candidates |-> <<>>]
    ELSE IF positionalArgs[i].isArray
    THEN [error |-> NoError,
          candidates |-> Append(candidates,
              PositionalCandidate(positionalArgs[i].name, arrayValue(slice(args, i - 1))))]
    ELSE parsePositionalLoop(args, positionalArgs, i + 1,
             Append(candidates,
                 PositionalCandidate(positionalArgs[i].name, stringValue(args[i]))))

\* parsePositionalArguments that drops the tokens beyond the declared fields
parsePositionalArgumentsDropping(args, positionalArgs) ==
    parsePositionalLoop(
        IF Len(args) > Len(positionalArgs) THEN SubSeq(args, 1, Len(positionalArgs))
        ELSE args,
        positionalArgs, 1, <<>>)

parsePositionalArguments(args, positionalArgs) ==
    parsePositionalLoop(args, positionalArgs, 1, <<>>)

\* pickNextNonOptionArgumentCandidates that does not stop at an option-like token
pickNextNonOptionArgumentCandidatesAll(targets, options) == targets

pickNextNonOptionArgumentCandidates(targets, options) ==
    bind(findIndex(targets, LAMBDA arg : likesOptionArg(arg, options)),
         LAMBDA foundIndex :
        IF foundIndex = 0 THEN targets ELSE SubSeq(targets, 1, foundIndex - 1))

\* State of the traversal; index is 1-based (the code's index + 1)
\* ParseToFindCommandResult at the start of parseToFindCommand; index is
\* 1-based and <<>> stands for undefined
initialSearch ==
    [index |-> 1, isHelp |-> FALSE, isVersion |-> FALSE, commandName |-> <<>>]

initialState ==
    [index |-> 1, candidates |-> <<>>, positionalCandidates |-> <<>>,
     hasDoubleDash |-> FALSE, isHelp |-> FALSE, isVersion |-> FALSE]

stepResult(error, state) == [error |-> error, state |-> state]

\* processDoubleDash that leaves the index where it is
processDoubleDashStaying(state) ==
    stepResult(NoError, [state EXCEPT !.hasDoubleDash = TRUE])

processDoubleDash(state) ==
    stepResult(NoError, [state EXCEPT !.index = @ + 1, !.hasDoubleDash = TRUE])

processOption(state, args, options) ==
    bind(parseOptionArgument(options, args[state.index],
             pickNextNonOptionArgumentCandidates(slice(args, state.index), options)),
         LAMBDA r :
        IF r.error # NoError THEN stepResult(r.error, state)
        ELSE stepResult(NoError,
                 [state EXCEPT !.index = @ + r.shift,
                               !.candidates = @ \o r.candidates]))

\* processPositionalArguments without the test of state.positionalCandidates
processPositionalArgumentsUnchecked(state, args, options, positionalArgs) ==
    bind(pickPositionalArguments(slice(args, state.index - 1), options,
                                 state.hasDoubleDash), LAMBDA p :
    bind(parsePositionalArguments(p.positionalArgs, positionalArgs), LAMBDA r :
        IF r.error # NoError THEN stepResult(r.error, state)
        ELSE stepResult(NoError,
                 [state EXCEPT !.positionalCandidates = r.candidates,
                               !.index = @ + p.shift])))

processPositionalArguments(state, args, options, positionalArgs) ==
    IF Len(state.positionalCandidates) # 0
    THEN stepResult(ParseError("Positional arguments specified twice", <<>>), state)
    ELSE
    bind(pickPositionalArguments(slice(args, state.index - 1), options,
                                 state.hasDoubleDash), LAMBDA p :
    bind(parsePositionalArguments(p.positionalArgs, positionalArgs), LAMBDA r :
        IF r.error # NoError THEN stepResult(r.error, state)
        ELSE stepResult(NoError,
                 [state EXCEPT !.positionalCandidates = r.candidates,
                               !.index = @ + p.shift])))

isHelpOption(arg) == arg = <<"-", "h">> \/ arg = <<"-", "-", "h", "e", "l", "p">>

isVersionOption(arg) ==
    arg = <<"-", "V">> \/ arg = <<"-", "-", "v", "e", "r", "s", "i", "o", "n">>

-----------------------------------------------------------------------------
(* Validator: validator.ts                                                 *)

\* a validated value: string | number | string[] | number[] | boolean, or
\* undefined
vUndefined == [k |-> "undefined", s |-> <<>>, n |-> <<>>, a |-> <<>>, b |-> FALSE]
vString(str) == [k |-> "string", s |-> str, n |-> <<>>, a |-> <<>>, b |-> FALSE]
vNumber(num) == [k |-> "number", s |-> <<>>, n |-> num, a |-> <<>>, b |-> FALSE]
vStrings(arr) == [k |-> "string[]", s |-> <<>>, n |-> <<>>, a |-> arr, b |-> FALSE]
vNumbers(arr) == [k |-> "number[]", s |-> <<>>, n |-> <<>>, a |-> arr, b |-> FALSE]
vBoolean(bool) == [k |-> "boolean", s |-> <<>>, n |-> <<>>, a |-> <<>>, b |-> bool]

valid(value) == [valid |-> TRUE, value |-> value]
invalid == [valid |-> FALSE, value |-> vUndefined]

\* findDuplicateValues that reports nothing
findDuplicateValuesNone(array) == <<>>

\* util.findDuplicateValues: array.filter((e, i, a) => a.indexOf(e) !== i)
findDuplicateValues(array) ==
    LET keep == {i \in 1..Len(array) : \E j \in 1..(i - 1) : array[j] = array[i]}
        RECURSIVE collect(_)
        collect(i) == IF i > Len(array) THEN <<>>
                      ELSE IF i \in keep THEN <<array[i]>> \o collect(i + 1)
                      ELSE collect(i + 1)
    IN  collect(1)

\* names.join(", ")
RECURSIVE join(_)
join(names) ==
    IF names = <<>> THEN <<>>
    ELSE IF Len(names) = 1 THEN names[1]
    ELSE names[1] \o <<",", " ">> \o join(Tail(names))

validateCandidateValue(option, value, isNegative) ==
    IF option.isArray /\ value.k # "array" THEN invalid
    ELSE IF option.isArray /\ option.type = "string"
    THEN IF Len(value.a) = 0 THEN invalid ELSE valid(vStrings(value.a))
    ELSE IF option.isArray /\ option.type = "number"
    THEN IF \E i \in 1..Len(value.a) : ~isNumericValue(value.a[i]) THEN invalid
         ELSE valid(vNumbers([i \in 1..Len(value.a) |-> parseFloat(value.a[i])]))
    ELSE IF value.k = "array" THEN invalid
    ELSE IF option.type = "string"
    THEN IF value.k = "undefined" THEN invalid ELSE valid(vString(value.s))
    ELSE IF option.type = "number"
    THEN IF value.k = "undefined" \/ ~isNumericValue(value.s) THEN invalid
         ELSE valid(vNumber(parseFloat(value.s)))
    ELSE IF value.k # "undefined" THEN invalid
    ELSE IF isNegative THEN valid(vBoolean(FALSE))
    ELSE valid(vBoolean(TRUE))

validatePositionalCandidateValue(option, value) ==
    IF option.isArray /\ value.k # "array" THEN invalid
    ELSE IF option.isArray /\ option.type = "string" THEN valid(vStrings(value.a))
    ELSE IF option.isArray
    THEN IF \E i \in 1..Len(value.a) : ~isNumericValue(value.a[i]) THEN invalid
         ELSE valid(vNumbers([i \in 1..Len(value.a) |-> parseFloat(value.a[i])]))
    ELSE IF option.type = "string" THEN valid(vString(value.s))
    ELSE IF ~isNumericValue(value.s) THEN invalid
    ELSE valid(vNumber(parseFloat(value.s)))

validated(error, entries) == [error |-> error, entries |-> entries]

\* `Invalid option value. ${option.type} is expected: ${candidate.name}`
invalidOptionValue(type) ==
    CASE type = "string" -> "Invalid option value. string is expected: <arg>"
      [] type = "number" -> "Invalid option value. number is expected: <arg>"
      [] type = "boolean" -> "Invalid option value. boolean is expected: <arg>"

\* [name, value] pair of validValues and an entry { name, value } of the result
entry(name, value) == [name |-> name, value |-> value]

\* values.flat() over the validated values of one array option
RECURSIVE flatValues(_)
flatValues(values) ==
    IF values = <<>> THEN <<>> ELSE Head(values).a \o flatValues(Tail(values))

\* candidates.map(...): the pairs up to the first candidate that throws
RECURSIVE mapOptionCandidates(_, _)
mapOptionCandidates(candidates, options) ==
    IF candidates = <<>> THEN validated(NoError, <<>>)
    ELSE
    bind(Head(candidates), LAMBDA candidate :
    bind(findIndex(options, LAMBDA opt : opt.name = candidate.name), LAMBDA n :
        IF n = 0
        THEN validated(ParseError("Unknown option: <arg>", candidate.name), <<>>)
        ELSE
    bind(validateCandidateValue(options[n], candidate.value, candidate.isNegative),
         LAMBDA v :
        IF ~v.valid
        THEN validated(ParseError(invalidOptionValue(options[n].type), candidate.name),
                       <<>>)
        ELSE
    bind(mapOptionCandidates(Tail(candidates), options), LAMBDA rest :
        IF rest.error # NoError THEN rest
        ELSE validated(NoError, <<entry(candidate.name, v.value)>> \o rest.entries)))))

\* the flatMap of validateOptions without the merge of array-kind values
mergeArrayTypeUnmerged(options, validValues) ==
    flat([n \in 1..Len(options) |->
             filter(validValues, LAMBDA e : e.name = options[n].name)])

\* options.flatMap(...) of validateOptions
RECURSIVE mergeArrayType(_, _)
mergeArrayType(options, validValues) ==
    IF options = <<>> THEN <<>>
    ELSE
    bind(Head(options), LAMBDA opt :
    bind(filter(validValues, LAMBDA e : e.name = opt.name), LAMBDA nameValues :
    bind([i \in 1..Len(nameValues) |-> nameValues[i].value], LAMBDA values :
        (IF ~opt.isArray THEN nameValues
         ELSE IF Len(values) = 0 THEN <<>>
         ELSE <<entry(opt.name, [values[1] EXCEPT !.a = flatValues(values)])>>)
        \o mergeArrayType(Tail(options), validValues))))

\* new Map(pairs).has(name)
mapHas(pairs, name) == \E i \in 1..Len(pairs) : pairs[i].name = name

\* new Map(pairs).get(name): the last pair with the key wins
mapGet(pairs, name) ==
    pairs[CHOOSE i \in 1..Len(pairs) :
              /\ pairs[i].name = name
              /\ \A j \in (i + 1)..Len(pairs) : pairs[j].name # name].value

\* entries in the order of validValueSet (arrival order) instead of the
\* order of declaration, the fields without value last
mapDeclaredByArrival(declared, validValueSet, message) ==
    IF \E n \in 1..Len(declared) :
           ~mapHas(validValueSet, declared[n].name) /\ declared[n].required
    THEN validated(ParseError(message,
             declared[CHOOSE n \in 1..Len(declared) :
                          ~mapHas(validValueSet, declared[n].name)
                              /\ declared[n].required].name), <<>>)
    ELSE validated(NoError,
             validValueSet
             \o [i \in 1..Len(filter(declared,
                                      LAMBDA d : ~mapHas(validValueSet, d.name))) |->
                    entry(filter(declared,
                                 LAMBDA d : ~mapHas(validValueSet, d.name))[i].name,
                          vUndefined)])

\* options.map(...): entries in declaration order, up to the first throw
RECURSIVE mapDeclared(_, _, _)
mapDeclared(declared, validValueSet, message) ==
    IF declared = <<>> THEN validated(NoError, <<>>)
    ELSE
    bind(Head(declared), LAMBDA opt :
        IF ~mapHas(validValueSet, opt.name) /\ opt.required
        THEN validated(ParseError(message, opt.name), <<>>)
        ELSE
    bind(mapDeclared(Tail(declared), validValueSet, message), LAMBDA rest :
        IF rest.error # NoError THEN rest
        ELSE IF ~mapHas(validValueSet, opt.name)
        THEN validated(NoError, <<entry(opt.name, vUndefined)>> \o rest.entries)
        ELSE validated(NoError,
                 <<entry(opt.name, mapGet(validValueSet, opt.name))>> \o rest.entries)))

namesOf(pairs) == [i \in 1..Len(pairs) |-> pairs[i].name]

validateOptions(candidates, options) ==
    bind(mapOptionCandidates(candidates, options), LAMBDA validValues :
        IF validValues.error # NoError THEN validValues
        ELSE
    bind(mergeArrayType(options, validValues.entries), LAMBDA arrayTypeMerged :
    bind(findDuplicateValues(namesOf(arrayTypeMerged)), LAMBDA duplicateOptionNames :
        IF Len(duplicateOptionNames) # 0
        THEN validated(ParseError("Duplicated option: <arg>", join(duplicateOptionNames)),
                       <<>>)
        ELSE mapDeclared(options, arrayTypeMerged, "Required option is missing: <arg>"))))

RECURSIVE mapPositionalCandidates(_, _)
mapPositionalCandidates(candidates, positionalArgs) ==
    IF candidates = <<>> THEN validated(NoError, <<>>)
    ELSE
    bind(Head(candidates), LAMBDA candidate :
    bind(findIndex(positionalArgs, LAMBDA opt : opt.name = candidate.name), LAMBDA n :
        IF n = 0
        THEN validated(ParseError("Unknown positional argument: <arg>", candidate.name),
                       <<>>)
        ELSE
    bind(validatePositionalCandidateValue(positionalArgs[n], candidate.value), LAMBDA v :
        IF ~v.valid
        THEN validated(ParseError("Invalid positional argument value: <arg>",
                                  candidate.name), <<>>)
        ELSE
    bind(mapPositionalCandidates(Tail(candidates), positionalArgs), LAMBDA rest :
        IF rest.error # NoError THEN rest
        ELSE validated(NoError, <<entry(candidate.name, v.value)>> \o rest.entries)))))

validatePositionalArguments(candidates, positionalArgs) ==
    bind(mapPositionalCandidates(candidates, positionalArgs), LAMBDA validValues :
        IF validValues.error # NoError THEN validValues
        ELSE
    bind(findDuplicateValues(namesOf(validValues.entries)),
         LAMBDA duplicatedPositionalArgNames :
        IF Len(duplicatedPositionalArgNames) # 0
        THEN validated(ParseError("Duplicated positional argument: <arg>",
                                  join(duplicatedPositionalArgNames)), <<>>)
        ELSE mapDeclared(positionalArgs, validValues.entries,
                         "Required argument is missing: <arg>")))

validateResult(error, options, positionalArgs) ==
    [error |-> error, options |-> options, positionalArgs |-> positionalArgs]

validate(parsed, options, positionalArgs) ==
    bind(validateOptions(parsed.candidates, options), LAMBDA o :
        IF o.error # NoError THEN validateResult(o.error, <<>>, <<>>)
        ELSE
    bind(validatePositionalArguments(parsed.positionalCandidates, positionalArgs),
         LAMBDA p :
        IF p.error # NoError THEN validateResult(p.error, <<>>, <<>>)
        ELSE validateResult(NoError, o.entries, p.entries)))

\* which branch of the if/else chain of the traversal loop of parse() is taken
\* for the token at state.index
parseBranch(state, args, options) ==
    LET arg == args[state.index]
    IN  IF state.hasDoubleDash THEN "positionalAfterDoubleDash"
        ELSE IF arg = <<"-", "-">> THEN "doubleDash"
        ELSE IF isHelpOption(arg) THEN "help"
        ELSE IF isVersionOption(arg) THEN "version"
        ELSE IF likesOptionArg(arg, options) THEN "option"
        ELSE "positional"

\* one iteration of the traversal loop of parse(); stop is the break
parseIteration(state, args, options, positionalArgs) ==
    bind(parseBranch(state, args, options), LAMBDA branch :
    bind(CASE branch = "positionalAfterDoubleDash" ->
                  processPositionalArguments(state, args, options, positionalArgs)
           [] branch = "doubleDash" -> processDoubleDash(state)
           [] branch = "help" -> stepResult(NoError, [state EXCEPT !.isHelp = TRUE])
           [] branch = "version" -> stepResult(NoError, [state EXCEPT !.isVersion = TRUE])
           [] branch = "option" -> processOption(state, args, options)
           [] branch = "positional" ->
                  processPositionalArguments(state, args, options, positionalArgs),
         LAMBDA r :
        [error |-> r.error, state |-> r.state, stop |-> branch \in {"help", "version"}]))

RECURSIVE parseLoop(_, _, _, _)
parseLoop(state, args, options, positionalArgs) ==
    IF state.index > Len(args) THEN stepResult(NoError, state)
    ELSE
    bind(parseIteration(state, args, options, positionalArgs), LAMBDA r :
        IF r.error # NoError \/ r.stop THEN stepResult(r.error, r.state)
        ELSE parseLoop(r.state, args, options, positionalArgs))

\* parse({ args, options, positionalArgs }): the thrown error, or the Parsed
\* value in the fields of state
parse(args, options, positionalArgs) ==
    parseLoop(initialState, args, options, positionalArgs)

-----------------------------------------------------------------------------
(* Validator, revision of src/validator.ts without array-kind options      *)
(* (Candidate.value: string | undefined)                                   *)

validateCandidateValueV1(option, value, isNegative) ==
    IF option.type = "string"
    THEN IF value.k = "undefined" THEN invalid ELSE valid(vString(value.s))
    ELSE IF option.type = "number"
    THEN IF value.k = "undefined" \/ ~isNumericValue(value.s) THEN invalid
         ELSE valid(vNumber(parseFloat(value.s)))
    ELSE IF value.k # "undefined" THEN invalid
    ELSE IF isNegative THEN valid(vBoolean(FALSE))
    ELSE valid(vBoolean(TRUE))

RECURSIVE mapOptionCandidatesV1(_, _)
mapOptionCandidatesV1(candidates, options) ==
    IF candidates = <<>> THEN validated(NoError, <<>>)
    ELSE
    bind(Head(candidates), LAMBDA candidate :
    bind(findIndex(options, LAMBDA opt : opt.name = candidate.name), LAMBDA n :
    bind(validateCandidateValueV1(options[n], candidate.value, candidate.isNegative),
         LAMBDA v :
        IF ~v.valid
        THEN validated(ParseError(invalidOptionValue(options[n].type), candidate.name),
                       <<>>)
        ELSE
    bind(mapOptionCandidatesV1(Tail(candidates), options), LAMBDA rest :
        IF rest.error # NoError THEN rest
        ELSE validated(NoError, <<entry(candidate.name, v.value)>> \o rest.entries)))))

RECURSIVE mapPositionalCandidatesV1(_, _)
mapPositionalCandidatesV1(candidates, positionalArgs) ==
    IF candidates = <<>> THEN validated(NoError, <<>>)
    ELSE
    bind(Head(candidates), LAMBDA candidate :
    bind(findIndex(positionalArgs, LAMBDA opt : opt.name = candidate.name), LAMBDA n :
    bind(validatePositionalCandidateValue(positionalArgs[n], candidate.value), LAMBDA v :
        IF ~v.valid
        THEN validated(ParseError("Invalid positional argument value: <arg>",
                                  candidate.name), <<>>)
        ELSE
    bind(mapPositionalCandidatesV1(Tail(candidates), positionalArgs), LAMBDA rest :
        IF rest.error # NoError THEN rest
        ELSE validated(NoError, <<entry(candidate.name, v.value)>> \o rest.entries)))))

validateV1(parsed, options, positionalArgs) ==
    bind(mapOptionCandidatesV1(parsed.candidates, options), LAMBDA validOptionValues :
        IF validOptionValues.error # NoError
        THEN validateResult(validOptionValues.error, <<>>, <<>>)
        ELSE
    bind(mapPositionalCandidatesV1(parsed.positionalCandidates, positionalArgs),
         LAMBDA validPositionalArgValues :
        IF validPositionalArgValues.error # NoError
        THEN validateResult(validPositionalArgValues.error, <<>>, <<>>)
        ELSE
    bind(findDuplicateValues(namesOf(validOptionValues.entries)),
         LAMBDA duplicateOptionNames :
        IF Len(duplicateOptionNames) # 0
        THEN validateResult(ParseError("Duplicated option: <arg>",
                                       join(duplicateOptionNames)), <<>>, <<>>)
        ELSE
    bind(findDuplicateValues(namesOf(validPositionalArgValues.entries)),
         LAMBDA duplicatedPositionalArgNames :
        IF Len(duplicatedPositionalArgNames) # 0
        THEN validateResult(ParseError("Duplicated positional argument: <arg>",
                                       join(duplicatedPositionalArgNames)), <<>>, <<>>)
        ELSE
    bind(mapDeclared(options, validOptionValues.entries,
                     "Required option is missing: <arg>"), LAMBDA optionsResult :
        IF optionsResult.error # NoError
        THEN validateResult(optionsResult.error, <<>>, <<>>)
        ELSE
    bind(mapDeclared(positionalArgs, validPositionalArgValues.entries,
                     "Required option is missing: <arg>"), LAMBDA positionalArgsResult :
        IF positionalArgsResult.error # NoError
        THEN validateResult(positionalArgsResult.error, <<>>, <<>>)
        ELSE validateResult(NoError, optionsResult.entries,
                            positionalArgsResult.entries)))))))

-----------------------------------------------------------------------------
(* Result assembly: createInternalParserAndParse and Parser._zodParse      *)

\* { ...a, ...b } over objects kept as sequences of { name, value } in
\* insertion order: a key of b replaces the value of the same key of a
objectSpread(a, b) ==
    [i \in 1..Len(a) |-> IF mapHas(b, a[i].name)
                         THEN entry(a[i].name, mapGet(b, a[i].name)) ELSE a[i]]
    \o filter(b, LAMBDA e : ~mapHas(a, e.name))

\* generateGlobalHelp: the help text of a Parser, determined by its
\* declaration
parserHelp == [scope |-> "global", of |-> <<>>]

noResult == [type |-> "none", parsed |-> <<>>, error |-> NoError]
resultHelp ==
    [type |-> "help", parsed |-> <<>>, error |-> NoError, help |-> parserHelp,
     exitCode |-> 0]
resultVersion ==
    [type |-> "version", parsed |-> <<>>, error |-> NoError, help |-> parserHelp,
     exitCode |-> 0]
resultMatch(parsed) ==
    [type |-> "match", parsed |-> parsed, error |-> NoError, help |-> parserHelp]

\* the catch clause: a ParseError becomes an error result, anything else is
\* thrown again
resultCatch(e) ==
    IF e.class = "ParseError"
    THEN [type |-> "error", parsed |-> <<>>, error |-> e, help |-> parserHelp,
          exitCode |-> 1]
    ELSE [type |-> "throw", parsed |-> <<>>, error |-> e]

\* z.object(shape).safeParse(parsed) for values that passed validate(): a
\* field left undefined takes the default of its schema
zodParse(parsed, declared) ==
    [i \in 1..Len(parsed) |->
        LET n == findIndex(declared, LAMBDA d : d.name = parsed[i].name)
        IN  IF parsed[i].value = vUndefined /\ n # 0 /\ declared[n].hasDefault
            THEN entry(parsed[i].name, declared[n].defaultValue)
            ELSE parsed[i]]

\* the refinement of a field of the shape: z.string().min(min), 0 for none
Refinement(name, min) == [name |-> name, min |-> min]

\* z.object(shape).safeParse(parsed).error.issues[0] as a ParseError, NoError
\* on success; a string shorter than its minimum is the issue of the model
zodIssue(parsed, shape) ==
    bind(findIndex(shape, LAMBDA f :
             /\ mapHas(parsed, f.name)
             /\ mapGet(parsed, f.name).k = "string"
             /\ Len(mapGet(parsed, f.name).s) < f.min), LAMBDA n :
        IF n = 0 THEN NoError
        ELSE ParseError("String must contain at least <min> character(s): <path>",
                        shape[n].name))

\* the error result of _zodParse of Parser
zodParseError(e, help) ==
    [type |-> "error", error |-> e, help |-> help, exitCode |-> 1]

\* the error result of _zodParse of CommandParser
zodParseErrorOfCommand(e, help, commandName) ==
    [type |-> "error", error |-> e, help |-> help, exitCode |-> 1,
     commandName |-> commandName]

\* no validation callback was given
undefinedValidation == "undefined"

\* what a validation callback can do: return true, return a message, throw
\* an Error with a message, throw a value that is not an Error
ValidationOutcomes == {"true", "string", "Error", "thrown"}

\* _validateByCustomValidation for a callback with the given outcome: the
\* error result, the value thrown again, or undefined
\* validateByCustomValidation that takes a returned message for a success
validateByCustomValidationReturned(outcome, help) ==
    IF outcome \in {"true", "string"} THEN [type |-> "undefined"]
    ELSE IF outcome = "thrown"
    THEN [type |-> "throw", error |-> PlainError("thrown by validation", <<>>)]
    ELSE [type |-> "error", error |-> ParseError("message of validation", <<>>),
          help |-> help, exitCode |-> 1]

validateByCustomValidation(outcome, help) ==
    IF outcome = "true" THEN [type |-> "undefined"]
    ELSE IF outcome = "thrown"
    THEN [type |-> "throw", error |-> PlainError("thrown by validation", <<>>)]
    ELSE [type |-> "error", error |-> ParseError("message of validation", <<>>),
          help |-> help, exitCode |-> 1]

\* the version of a parser without version()
undefinedVersion == <<>>

\* process.exit has not been called
noExit == [exited |-> FALSE, code |-> 0, stdout |-> <<>>, stderr |-> <<>>]

\* util.errorExit(parseResult, version = "none")
errorExit(parseResult, version) ==
    [exited |-> TRUE,
     code |-> parseResult.exitCode,
     stdout |-> IF parseResult.type = "help" THEN <<parseResult.help>>
                ELSE IF parseResult.type = "version"
                THEN <<IF version = undefinedVersion THEN <<"n", "o", "n", "e">>
                       ELSE version>>
                ELSE <<>>,
     stderr |-> IF parseResult.type \in {"help", "version"} THEN <<>>
                ELSE <<parseResult.error, parseResult.help>>]

-----------------------------------------------------------------------------
(* Declarations and argument lists explored                                *)

InternalOption(name, type, alias, isArray, required, hasDefault, defaultValue) ==
    [name |-> name, type |-> type, alias |-> alias, required |-> required,
     isArray |-> isArray, hasDefault |-> hasDefault, defaultValue |-> defaultValue]

InternalPositionalArgument(name, type, isArray, required) ==
    [name |-> name, type |-> type, required |-> required, isArray |-> isArray,
     hasDefault |-> FALSE, defaultValue |-> vUndefined]

\* option names
fl == <<"f", "l">>
st == <<"s", "t">>
ar == <<"a", "r">>
nu == <<"n", "u">>
noFl == <<"n", "o", "-", "f", "l">>

\* { fl: boolean, alias f, default true; st: string, alias s, optional }
\* args: p1 string (required), pr string[] (optional)
Declaration1 ==
    [options |-> <<
        InternalOption(fl, "boolean", <<"f">>, FALSE, FALSE, TRUE, vBoolean(TRUE)),
        InternalOption(st, "string", <<"s">>, FALSE, FALSE, FALSE, vUndefined)>>,
     positionalArgs |-> <<
        InternalPositionalArgument(<<"p", "1">>, "string", FALSE, TRUE),
        InternalPositionalArgument(<<"p", "r">>, "string", TRUE, FALSE)>>,
     tokens |-> {
        <<"-", "-">>, <<"-", "h">>, <<"-", "-", "v", "e", "r", "s", "i", "o", "n">>,
        <<"-", "-", "f", "l">>, <<"-", "-", "n", "o", "-", "f", "l">>,
        <<"-", "-", "f", "l", "=">>, <<"-", "f">>,
        <<"-", "-", "s", "t">>, <<"-", "-", "n", "o", "-", "s", "t">>,
        <<"v">>, <<"w">>}]

\* { ar: string[], alias a, optional; nu: number, alias n, optional;
\*   fl: boolean, default false }
\* args: pr string[] (required)
Declaration2 ==
    [options |-> <<
        InternalOption(ar, "string", <<"a">>, TRUE, FALSE, FALSE, vUndefined),
        InternalOption(nu, "number", <<"n">>, FALSE, FALSE, FALSE, vUndefined),
        InternalOption(fl, "boolean", undefinedAlias, FALSE, FALSE, TRUE, vBoolean(FALSE))>>,
     positionalArgs |-> <<
        InternalPositionalArgument(<<"p", "r">>, "string", TRUE, TRUE)>>,
     tokens |-> {
        <<"-", "-">>, <<"-", "h">>,
        <<"-", "-", "a", "r">>, <<"-", "-", "a", "r", "=", "v">>,
        <<"-", "-", "a", "r", "=", "w">>, <<"-", "a">>, <<"-", "a", "v">>,
        <<"-", "-", "n", "u">>, <<"-", "-", "n", "u", "=", "1">>,
        <<"-", "-", "f", "l">>,
        <<"1">>, <<"w">>}]

\* { fl: boolean, default true; "no-fl": boolean, optional; st: string,
\*   required }, no positional argument
Declaration3 ==
    [options |-> <<
        InternalOption(fl, "boolean", undefinedAlias, FALSE, FALSE, TRUE, vBoolean(TRUE)),
        InternalOption(noFl, "boolean", undefinedAlias, FALSE, FALSE, FALSE, vUndefined),
        InternalOption(st, "string", <<"s">>, FALSE, TRUE, FALSE, vUndefined)>>,
     positionalArgs |-> <<>>,
     tokens |-> {
        <<"-", "-">>, <<"-", "V">>,
        <<"-", "-", "f", "l">>, <<"-", "-", "n", "o", "-", "f", "l">>,
        <<"-", "-", "f", "l", "=", "v">>,
        <<"-", "-", "s", "t">>, <<"-", "-", "s", "t", "=", "v">>,
        <<"-", "-", "n", "o", "-", "s", "t", "=", "v">>, <<"-", "s">>,
        <<"v">>}]

Declarations == {Declaration1, Declaration2, Declaration3}

\* names and aliases of the declarations of short options
oa == <<"a">>
ob == <<"b">>
oc == <<"c">>
os == <<"s">>
on == <<"n">>
oo == <<"o">>

\* { a: boolean, alias a; b: boolean, alias b; c: string, alias ab;
\*   s: string, alias s }, all optional
\* args: p1 string (required), p2 string (optional)
Declaration4 ==
    [options |-> <<
        InternalOption(oa, "boolean", <<"a">>, FALSE, FALSE, FALSE, vUndefined),
        InternalOption(ob, "boolean", <<"b">>, FALSE, FALSE, FALSE, vUndefined),
        InternalOption(oc, "string", <<"a", "b">>, FALSE, FALSE, FALSE, vUndefined),
        InternalOption(os, "string", <<"s">>, FALSE, FALSE, FALSE, vUndefined)>>,
     positionalArgs |-> <<
        InternalPositionalArgument(<<"p", "1">>, "string", FALSE, TRUE),
        InternalPositionalArgument(<<"p", "2">>, "string", FALSE, FALSE)>>,
     tokens |-> {
        <<"-", "-">>, <<"-", "h">>, <<"-", "V">>,
        <<"-", "a", "b">>, <<"-", "b", "a">>, <<"-", "b", "s">>, <<"-", "s", "b">>,
        <<"-", "b", "s", "a">>, <<"-", "-", "s">>, <<"-", "-", "n", "o", "-", "b">>,
        <<"v">>}]

\* { n: number[], alias n; o: string, alias 1; b: boolean, alias b }, all
\* optional
\* args: pr number[] (optional)
Declaration5 ==
    [options |-> <<
        InternalOption(on, "number", <<"n">>, TRUE, FALSE, FALSE, vUndefined),
        InternalOption(oo, "string", <<"1">>, FALSE, FALSE, FALSE, vUndefined),
        InternalOption(ob, "boolean", <<"b">>, FALSE, FALSE, FALSE, vUndefined)>>,
     positionalArgs |-> <<
        InternalPositionalArgument(<<"p", "1">>, "string", FALSE, FALSE),
        InternalPositionalArgument(<<"p", "r">>, "number", TRUE, FALSE)>>,
     tokens |-> {
        <<"-", "-">>, <<"-", "h">>,
        <<"-", "1">>, <<"-", "2">>, <<"-", "1", "2">>, <<"-", "1", "v">>,
        <<"-", ".", "5">>, <<"-", "2", "=", "v">>, <<"-", "n">>, <<"-", "-", "2">>,
        <<"-", "-", "n">>, <<"-", "b", "n">>}]

ShortDeclarations == {Declaration4, Declaration5}

\* the argument lists of at most MaxArgs tokens of a declaration
ArgLists(tokens) == UNION {[1..n -> tokens] : n \in 0..MaxArgs}

-----------------------------------------------------------------------------
(* Multi-command search and result assembly: parseToFindCommand,           *)
(* CommandParser                                                           *)

InternalCommand(name, options, positionalArgs) ==
    [name |-> name, options |-> options, positionalArgs |-> positionalArgs]

\* commands.map((command) => command.name)
commandNames(cmds) == [i \in 1..Len(cmds) |-> cmds[i].name]

\* Array.prototype.includes
includes(seq, x) == \E i \in 1..Len(seq) : seq[i] = x

\* commands.find((command) => command.name === name) as a position, 0 when
\* undefined
findCommand(cmds, name) == findIndex(cmds, LAMBDA command : command.name = name)

\* the outcome of one iteration of the loop of parseToFindCommand: the error
\* thrown, or the next state and whether the loop breaks
searchStep(error, search, break) == [error |-> error, state |-> search, break |-> break]

\* which branch of the if/else chain of the loop of parseToFindCommand is
\* taken
searchBranch(search, args, names) ==
    bind(args[search.index], LAMBDA arg :
        IF isHelpOption(arg) THEN "help"
        ELSE IF isVersionOption(arg) THEN "version"
        ELSE IF includes(names, arg) THEN "command"
        ELSE "unknown")

\* the branch of a help token: global help, command help, or go on
\* searchHelp that never looks at the token after the help token
searchHelpGlobal(search, args, names) ==
    searchStep(NoError, [search EXCEPT !.isHelp = TRUE], TRUE)

searchHelp(search, args, names) ==
    IF search.index + 1 > Len(args)
    THEN searchStep(NoError, [search EXCEPT !.isHelp = TRUE], TRUE)
    ELSE IF includes(names, args[search.index + 1])
    THEN searchStep(NoError, [search EXCEPT !.isHelp = TRUE,
                                            !.commandName = args[search.index + 1]],
                    TRUE)
    ELSE searchStep(NoError, [search EXCEPT !.isHelp = TRUE, !.index = @ + 1], FALSE)

\* searchVersion that goes on with the next token
searchVersionContinuing(search) ==
    searchStep(NoError, [search EXCEPT !.isVersion = TRUE, !.index = @ + 1], FALSE)

searchVersion(search) == searchStep(NoError, [search EXCEPT !.isVersion = TRUE], TRUE)

searchCommand(search, args) ==
    searchStep(NoError, [search EXCEPT !.commandName = args[search.index],
                                       !.index = @ + 1], TRUE)

\* searchUnknown that skips the token
searchUnknownSkipping(search, args) ==
    searchStep(NoError, [search EXCEPT !.index = @ + 1], FALSE)

searchUnknown(search, args) ==
    searchStep(ParseError("Unknown argument: <arg>", args[search.index]), search, TRUE)

\* generateGlobalCommandHelp / generateCommandHelp: the text is determined by
\* the commands, or by the selected command (position n, 0 when undefined)
generateParseHelp(cmds, n) ==
    IF n = 0 THEN [scope |-> "global", of |-> commandNames(cmds)]
    ELSE [scope |-> "command", of |-> <<cmds[n].name>>]

handleInternalParseHelpAndVersion(parsed, n, cmds) ==
    IF parsed.isHelp
    THEN [type |-> "help", help |-> generateParseHelp(cmds, n), exitCode |-> 0,
          commandName |-> parsed.commandName]
    ELSE [type |-> "version", help |-> generateParseHelp(cmds, n), exitCode |-> 0,
          commandName |-> <<>>]

\* the catch clause of _internalParseAndValidate
handleInternalParseError(e, cmds) ==
    IF e.class # "ParseError"
    THEN [type |-> "throw", error |-> e, help |-> generateParseHelp(cmds, 0),
          exitCode |-> 1, commandName |-> <<>>]
    ELSE [type |-> "error", error |-> e, exitCode |-> 1,
          help |-> generateParseHelp(cmds,
                       IF e.commandName # <<>> THEN findCommand(cmds, e.commandName)
                       ELSE 0),
          commandName |-> e.commandName]

\* catch (e) { if (e instanceof ParseError) e.commandName = commandName; throw e }
withCommandName(e, commandName) ==
    IF e.class = "ParseError" THEN [e EXCEPT !.commandName = commandName] ELSE e

validateMultipleCommands(parsed, options, positionalArgs, commandName) ==
    bind(validate(parsed, options, positionalArgs), LAMBDA v :
        IF v.error # NoError
        THEN validateResult(withCommandName(v.error, commandName), <<>>, <<>>)
        ELSE v)

handleInternalParseMatch(parsed, n, cmds, commandName) ==
    bind(validateMultipleCommands(parsed, cmds[n].options, cmds[n].positionalArgs,
                                  commandName), LAMBDA v :
        IF v.error # NoError THEN handleInternalParseError(v.error, cmds)
        ELSE [type |-> "match", parsed |-> objectSpread(v.options, v.positionalArgs),
              commandName |-> commandName, help |-> generateParseHelp(cmds, n)])

-----------------------------------------------------------------------------
(* The builders: validateParamOptionsAndPositionalArguments                *)

\* most fields of one options() or args() call
MaxFields == 2

\* the characters of [A-Za-z0-9_]
WordChars ==
    {"a", "b", "c", "d", "e", "f", "g", "h", "i", "j", "k", "l", "m", "n", "o", "p",
     "q", "r", "s", "t", "u", "v", "w", "x", "y", "z",
     "A", "B", "C", "D", "E", "F", "G", "H", "I", "J", "K", "L", "M", "N", "O", "P",
     "Q", "R", "S", "T", "U", "V", "W", "X", "Y", "Z",
     "0", "1", "2", "3", "4", "5", "6", "7", "8", "9", "_"}

\* z.string().regex(/^[A-Za-z0-9_]+[A-Za-z0-9_-]*$/).max(256)
IdSchema(name) ==
    /\ Len(name) >= 1
    /\ name[1] \in WordChars
    /\ \A i \in 2..Len(name) : name[i] \in WordChars \cup {"-"}
    /\ Len(name) <= 256

\* z.string().regex(/^[A-Za-z0-9_]+$/).max(10)
OptionAliasSchema(alias) ==
    /\ Len(alias) >= 1
    /\ \A i \in 1..Len(alias) : alias[i] \in WordChars
    /\ Len(alias) <= 10

validateParamOption(option) ==
    IF ~IdSchema(option.name)
    THEN PlainError("Invalid option name. Supported pattern is /<IdRegexStr>/: <arg>",
                    option.name)
    ELSE IF option.alias # undefinedAlias /\ ~OptionAliasSchema(option.alias)
    THEN PlainError("Invalid option alias. Supported pattern is /<OptionAliasRegexStr>/: <arg>",
                    option.alias)
    ELSE NoError

validateParamPositionalArg(arg) ==
    IF ~IdSchema(arg.name)
    THEN PlainError(
             "Invalid positional argument name. Supported pattern is /<IdRegexStr>/: <arg>",
             arg.name)
    ELSE NoError

\* Object.entries(options).forEach(validateParamOption): the first Error
validateParamOptions(options) ==
    bind(findIndex(options, LAMBDA opt : validateParamOption(opt) # NoError), LAMBDA n :
        IF n = 0 THEN NoError ELSE validateParamOption(options[n]))

\* positionalArgs.forEach(validateParamPositionalArg): the first Error
validateParamPositionalArgs(positionalArgs) ==
    bind(findIndex(positionalArgs, LAMBDA arg : validateParamPositionalArg(arg) # NoError),
         LAMBDA n :
        IF n = 0 THEN NoError ELSE validateParamPositionalArg(positionalArgs[n]))

checkForDuplicateOptionNames(options) ==
    IF Len(findDuplicateValues(namesOf(options))) # 0
    THEN PlainError("Duplicated option name: <arg>",
                    join(findDuplicateValues(namesOf(options))))
    ELSE NoError

\* checkForDuplicatePositionalOptionNames that finds no duplicate
checkForDuplicatePositionalOptionNamesNone(positionalArgs) == NoError

checkForDuplicatePositionalOptionNames(positionalArgs) ==
    IF Len(findDuplicateValues(namesOf(positionalArgs))) # 0
    THEN PlainError("Duplicated positional argument name: <arg>",
                    join(findDuplicateValues(namesOf(positionalArgs))))
    ELSE NoError

checkIfOptNameUsedWithPositionalOption(options, positionalArgs) ==
    bind(findIndex(options, LAMBDA opt : mapHas(positionalArgs, opt.name)), LAMBDA n :
        IF n # 0
        THEN PlainError("Duplicated option name with positional argument name: <arg>",
                        options[n].name)
        ELSE NoError)

\* the Error that validateParamOptionsAndPositionalArguments throws, NoError
\* when it returns
validateParamOptionsAndPositionalArguments(options, positionalArgs) ==
    IF validateParamOptions(options) # NoError
    THEN validateParamOptions(options)
    ELSE IF checkForDuplicateOptionNames(options) # NoError
    THEN checkForDuplicateOptionNames(options)
    ELSE IF validateParamPositionalArgs(positionalArgs) # NoError
    THEN validateParamPositionalArgs(positionalArgs)
    ELSE IF checkForDuplicatePositionalOptionNames(positionalArgs) # NoError
    THEN checkForDuplicatePositionalOptionNames(positionalArgs)
    ELSE checkIfOptNameUsedWithPositionalOption(options, positionalArgs)

\* Parser.subcommand that accepts a parser with fields
subcommandErrorNone(options, positionalArgs) == NoError

\* Parser.subcommand: the Error thrown for a parser with fields
subcommandError(options, positionalArgs) ==
    IF Len(options) > 0
    THEN PlainError("Cannot add subcommand to parser with options().", <<>>)
    ELSE IF Len(positionalArgs) > 0
    THEN PlainError("Cannot add subcommand to parser with args().", <<>>)
    ELSE NoError

\* CommandParser.subcommand: the Error thrown for a name it holds already
duplicatedCommand(cmds, command) ==
    IF \E i \in 1..Len(cmds) : cmds[i].name = command.name
    THEN PlainError("Duplicated command name: <arg>", command.name)
    ELSE NoError

-----------------------------------------------------------------------------
(* State machine: one call of Parser.parse(args)                           *)

VARIABLES
    options,          \* InternalOption[] of the parser
    positionalArgs,   \* InternalPositionalArgument[] of the parser
    args,             \* the argument list
    state,            \* State of the traversal loop of parse()
    pc,               \* "parse", "parsed", "matched" or "done"
    result,           \* the ParseResult
    blocks,           \* history: <<first, last>> positions of args of every
                      \* positional block collected by processPositionalArguments
    commands,         \* InternalCommand[] of a CommandParser, <<>> for a Parser
    searchResult,     \* state of the loop of parseToFindCommand
    shape,            \* the refinements of the schema of the parser, or those
                      \* of every command of a CommandParser
    validation,       \* the validation callback of the parser, or that of
                      \* every command of a CommandParser
    version,          \* the version given to the parser
    validationCalls,  \* history: number of calls of a validation callback
    actionCalls,      \* history: the calls of actions, command name and values
    exit              \* the call of process.exit and what was written before

config == <<shape, validation, version>>

effects == <<validationCalls, actionCalls, exit>>

vars == <<options, positionalArgs, args, state, pc, result, blocks, commands,
          searchResult, shape, validation, version, validationCalls, actionCalls,
          exit>>

Init ==
    \E d \in Declarations :
        /\ options = d.options
        /\ positionalArgs = d.positionalArgs
        /\ args \in ArgLists(d.tokens)
        /\ state = initialState
        /\ pc = "parse"
        /\ result = noResult
        /\ blocks = <<>>
        /\ commands = <<>>
        /\ searchResult = initialSearch
        /\ shape = <<>>
        /\ validation = undefinedValidation
        /\ version = undefinedVersion
        /\ validationCalls = 0
        /\ actionCalls = <<>>
        /\ exit = noExit

\* an iteration of the traversal loop that takes branch b; r is the State or
\* the error the branch produces
iterate(b, r) ==
    /\ pc = "parse"
    /\ state.index <= Len(args)
    /\ parseBranch(state, args, options) = b
    /\ state' = r.state
    /\ IF r.error # NoError
       THEN pc' = "done" /\ result' = resultCatch(r.error)
       ELSE pc' = (IF b \in {"help", "version"} THEN "parsed" ELSE "parse")
            /\ UNCHANGED result
    /\ blocks' = IF r.error = NoError
                    /\ b \in {"positional", "positionalAfterDoubleDash"}
                 THEN Append(blocks, <<state.index, r.state.index - 1>>)
                 ELSE blocks
    /\ UNCHANGED <<commands, searchResult, options, positionalArgs, args>>
    /\ UNCHANGED <<config, effects>>

parseDoubleDash == iterate("doubleDash", processDoubleDash(state))

parseHelp == iterate("help", stepResult(NoError, [state EXCEPT !.isHelp = TRUE]))

parseVersion == iterate("version", stepResult(NoError, [state EXCEPT !.isVersion = TRUE]))

parseOption == iterate("option", processOption(state, args, options))

parsePositional ==
    iterate("positional", processPositionalArguments(state, args, options, positionalArgs))

parsePositionalAfterDoubleDash ==
    iterate("positionalAfterDoubleDash",
            processPositionalArguments(state, args, options, positionalArgs))

\* the loop condition fails: parse() returns
parseReturn ==
    /\ pc = "parse"
    /\ state.index > Len(args)
    /\ pc' = "parsed"
    /\ UNCHANGED <<commands, searchResult, options, positionalArgs, args, state, result,
                   blocks>>
    /\ UNCHANGED <<config, effects>>

returnHelp ==
    /\ pc = "parsed"
    /\ state.isHelp
    /\ pc' = "done"
    /\ result' = resultHelp
    /\ UNCHANGED <<commands, searchResult, options, positionalArgs, args, state, blocks>>
    /\ UNCHANGED <<config, effects>>

returnVersion ==
    /\ pc = "parsed"
    /\ ~state.isHelp /\ state.isVersion
    /\ pc' = "done"
    /\ result' = resultVersion
    /\ UNCHANGED <<commands, searchResult, options, positionalArgs, args, state, blocks>>
    /\ UNCHANGED <<config, effects>>

afterValidate(v) ==
    /\ IF v.error # NoError
       THEN pc' = "done" /\ result' = resultCatch(v.error)
       ELSE pc' = "matched"
            /\ result' = resultMatch(objectSpread(v.options, v.positionalArgs))
    /\ UNCHANGED <<commands, searchResult, options, positionalArgs, args, state, blocks>>
    /\ UNCHANGED <<config, effects>>

validateAndMatch ==
    /\ pc = "parsed"
    /\ ~state.isHelp /\ ~state.isVersion
    /\ afterValidate(validate(state, options, positionalArgs))

\* the same step with the revision of validate() that has no array options,
\* for the declarations that have none
validateAndMatchV1 ==
    /\ pc = "parsed"
    /\ ~state.isHelp /\ ~state.isVersion
    /\ \A n \in 1..Len(options) : ~options[n].isArray
    /\ afterValidate(validateV1(state, options, positionalArgs))

\* Parser.parse after a match: the schema parse, the validation callback and
\* the return of the parsed values
schemaParse ==
    /\ pc = "matched"
    /\ pc' = "done"
    /\ IF zodIssue(result.parsed, shape) # NoError
       THEN /\ result' = zodParseError(zodIssue(result.parsed, shape), result.help)
            /\ UNCHANGED validationCalls
       ELSE IF validation = undefinedValidation
       THEN /\ result' = resultMatch(zodParse(result.parsed, options \o positionalArgs))
            /\ UNCHANGED validationCalls
       ELSE /\ validationCalls' = validationCalls + 1
            /\ \E outcome \in ValidationOutcomes :
                  result' = IF outcome = "true"
                            THEN resultMatch(zodParse(result.parsed,
                                                      options \o positionalArgs))
                            ELSE validateByCustomValidation(outcome, result.help)
    /\ UNCHANGED <<commands, searchResult, options, positionalArgs, args, state, blocks>>
    /\ UNCHANGED <<config, actionCalls, exit>>

Next ==
    \/ parseDoubleDash
    \/ parseHelp
    \/ parseVersion
    \/ parseOption
    \/ parsePositional
    \/ parsePositionalAfterDoubleDash
    \/ parseReturn
    \/ returnHelp
    \/ returnVersion
    \/ validateAndMatch
    \/ validateAndMatchV1
    \/ schemaParse

Spec == Init /\ [][Next]_vars

\* the same call of Parser.parse(args) for the declarations of short options
InitShort ==
    \E d \in ShortDeclarations :
        /\ options = d.options
        /\ positionalArgs = d.positionalArgs
        /\ args \in ArgLists(d.tokens)
        /\ state = initialState
        /\ pc = "parse"
        /\ result = noResult
        /\ blocks = <<>>
        /\ commands = <<>>
        /\ searchResult = initialSearch
        /\ shape = <<>>
        /\ validation = undefinedValidation
        /\ version = undefinedVersion
        /\ validationCalls = 0
        /\ actionCalls = <<>>
        /\ exit = noExit

SpecShort == InitShort /\ [][Next]_vars

-----------------------------------------------------------------------------
(* Multi-command parser: one call of CommandParser.parse(args)             *)

\* command names
c1 == <<"c", "1">>
c2 == <<"c", "2">>

\* c1 { fl: boolean, optional }; c2 { st: string, required } args: p1 string
\* (optional)
CommandDeclaration1 ==
    [commands |-> <<
        InternalCommand(c1,
            <<InternalOption(fl, "boolean", undefinedAlias, FALSE, FALSE, FALSE,
                             vUndefined)>>,
            <<>>),
        InternalCommand(c2,
            <<InternalOption(st, "string", undefinedAlias, FALSE, TRUE, FALSE,
                             vUndefined)>>,
            <<InternalPositionalArgument(<<"p", "1">>, "string", FALSE, FALSE)>>)>>,
     tokens |-> {
        <<"-", "h">>, <<"-", "-", "h", "e", "l", "p">>, <<"-", "V">>,
        <<"c", "1">>, <<"c", "2">>, <<"x">>, <<"-", "-", "f", "l">>}]

CommandDeclarations == {CommandDeclaration1}

InitCommands ==
    \E d \in CommandDeclarations :
        /\ commands = d.commands
        /\ args \in ArgLists(d.tokens)
        /\ searchResult = initialSearch
        /\ options = <<>>
        /\ positionalArgs = <<>>
        /\ state = initialState
        /\ pc = "search"
        /\ result = noResult
        /\ blocks = <<>>
        /\ shape = [n \in 1..Len(d.commands) |-> <<>>]
        /\ validation = [n \in 1..Len(d.commands) |-> undefinedValidation]
        /\ version = undefinedVersion
        /\ validationCalls = 0
        /\ actionCalls = <<>>
        /\ exit = noExit

\* _internalParseAndValidate without the test of an empty argument list:
\* parseMultipleCommands reads the fields of an undefined command
noCommandSpecifiedUnchecked ==
    /\ pc = "search"
    /\ Len(args) = 0
    /\ pc' = "done"
    /\ result' = handleInternalParseError(
                     PlainError("Cannot read properties of undefined", <<>>), commands)
    /\ UNCHANGED <<commands, searchResult, options, positionalArgs, args, state, blocks>>
    /\ UNCHANGED <<config, effects>>

\* _internalParseAndValidate with an empty argument list
noCommandSpecified ==
    /\ pc = "search"
    /\ Len(args) = 0
    /\ pc' = "done"
    /\ result' = handleInternalParseError(ParseError("No command specified", <<>>),
                                          commands)
    /\ UNCHANGED <<commands, searchResult, options, positionalArgs, args, state, blocks>>
    /\ UNCHANGED <<config, effects>>

\* an iteration of the loop of parseToFindCommand that takes branch b; r is
\* the outcome of the branch
search(b, r) ==
    /\ pc = "search"
    /\ Len(args) # 0
    /\ searchResult.index <= Len(args)
    /\ searchBranch(searchResult, args, commandNames(commands)) = b
    /\ IF r.error # NoError
       THEN /\ pc' = "done"
            /\ result' = handleInternalParseError(r.error, commands)
            /\ UNCHANGED searchResult
       ELSE /\ pc' = (IF r.break THEN "found" ELSE "search")
            /\ searchResult' = r.state
            /\ UNCHANGED result
    /\ UNCHANGED <<commands, options, positionalArgs, args, state, blocks>>
    /\ UNCHANGED <<config, effects>>

findHelp == search("help", searchHelp(searchResult, args, commandNames(commands)))

findVersion == search("version", searchVersion(searchResult))

findCommandName == search("command", searchCommand(searchResult, args))

findUnknown == search("unknown", searchUnknown(searchResult, args))

\* parseMultipleCommands after the search found help or version
returnSearch ==
    /\ pc = "found"
    /\ searchResult.isHelp \/ searchResult.isVersion
    /\ pc' = "parsedCommands"
    /\ state' = [initialState EXCEPT !.isHelp = searchResult.isHelp,
                                     !.isVersion = searchResult.isVersion]
    /\ UNCHANGED <<commands, searchResult, options, positionalArgs, args, result, blocks>>
    /\ UNCHANGED <<config, effects>>

\* parseMultipleCommands after the search found a command: parse() of the
\* remaining tokens against the fields of the command n, r its outcome
parseFound(n, r) ==
    /\ options' = commands[n].options
    /\ positionalArgs' = commands[n].positionalArgs
    /\ state' = r.state
    /\ IF r.error # NoError
       THEN /\ pc' = "done"
            /\ result' = handleInternalParseError(
                              withCommandName(r.error, searchResult.commandName),
                              commands)
       ELSE pc' = "parsedCommands" /\ UNCHANGED result
    /\ UNCHANGED <<commands, searchResult, args, blocks>>
    /\ UNCHANGED <<config, effects>>

parseCommand ==
    /\ pc = "found"
    /\ ~searchResult.isHelp /\ ~searchResult.isVersion
    /\ \E n \in 1..Len(commands) :
          /\ n = findCommand(commands, searchResult.commandName)
          /\ parseFound(n, parse(slice(args, searchResult.index - 1),
                                 commands[n].options, commands[n].positionalArgs))

\* _internalParseAndValidate after parseMultipleCommands returned help or
\* version
helpAndVersion ==
    /\ pc = "parsedCommands"
    /\ state.isHelp \/ state.isVersion
    /\ pc' = "done"
    /\ result' = handleInternalParseHelpAndVersion(
                     [isHelp |-> state.isHelp, isVersion |-> state.isVersion,
                      commandName |-> searchResult.commandName],
                     findCommand(commands, searchResult.commandName), commands)
    /\ UNCHANGED <<commands, searchResult, options, positionalArgs, args, state, blocks>>
    /\ UNCHANGED <<config, effects>>

\* the validation of the candidates; m is the result
matched(m) ==
    /\ pc' = (IF m.type = "match" THEN "matchedCommand" ELSE "done")
    /\ result' = m
    /\ UNCHANGED <<commands, searchResult, options, positionalArgs, args, state, blocks>>
    /\ UNCHANGED <<config, effects>>

match ==
    /\ pc = "parsedCommands"
    /\ ~state.isHelp /\ ~state.isVersion
    /\ matched(handleInternalParseMatch(state,
                   findCommand(commands, searchResult.commandName), commands,
                   searchResult.commandName))

\* CommandParser.parse after a match: the schema parse and the action of the
\* command
\* the call of the action of the first command, whatever command was used
callActionOfFirst(n) ==
    /\ pc' = "action"
    /\ result' = [result EXCEPT !.parsed = zodParse(result.parsed,
                                               options \o positionalArgs)]
    /\ actionCalls' = Append(actionCalls,
                             [name |-> commands[1].name,
                              value |-> zodParse(result.parsed,
                                                 options \o positionalArgs)])

\* the action of command n is called with the parsed values
callAction(n) ==
    /\ pc' = "action"
    /\ result' = [result EXCEPT !.parsed = zodParse(result.parsed,
                                               options \o positionalArgs)]
    /\ actionCalls' = Append(actionCalls,
                             [name |-> commands[n].name,
                              value |-> zodParse(result.parsed,
                                                 options \o positionalArgs)])

\* the schema parse, the validation callback and the action of command n
actionOf(n) ==
    IF zodIssue(result.parsed, shape[n]) # NoError
    THEN /\ pc' = "done"
         /\ result' = zodParseErrorOfCommand(zodIssue(result.parsed, shape[n]),
                                             result.help, result.commandName)
         /\ UNCHANGED <<validationCalls, actionCalls>>
    ELSE IF validation[n] = undefinedValidation
    THEN callAction(n) /\ UNCHANGED validationCalls
    ELSE /\ validationCalls' = validationCalls + 1
         /\ \E outcome \in ValidationOutcomes :
               IF outcome = "true" THEN callAction(n)
               ELSE /\ pc' = "done"
                    /\ result' = validateByCustomValidation(outcome, result.help)
                    /\ UNCHANGED actionCalls

\* CommandParser.parse after a match
action ==
    /\ pc = "matchedCommand"
    /\ \E n \in 1..Len(commands) :
          /\ n = findCommand(commands, result.commandName)
          /\ actionOf(n)
    /\ UNCHANGED <<commands, searchResult, options, positionalArgs, args, state, blocks>>
    /\ UNCHANGED <<config, exit>>

\* _handleAndExit: the result that is not a match is written and the process
\* exits
handleAndExit ==
    /\ pc = "done"
    /\ result.type \in {"help", "version", "error"}
    /\ pc' = "exit"
    /\ exit' = errorExit(result, version)
    /\ UNCHANGED <<commands, searchResult, options, positionalArgs, args, state, result,
                   blocks>>
    /\ UNCHANGED <<config, validationCalls, actionCalls>>

NextCommands ==
    \/ noCommandSpecified
    \/ findHelp
    \/ findVersion
    \/ findCommandName
    \/ findUnknown
    \/ returnSearch
    \/ parseCommand
    \/ helpAndVersion
    \/ match
    \/ action

SpecCommands == InitCommands /\ [][NextCommands]_vars

-----------------------------------------------------------------------------
(* Runs of Parser.parse and CommandParser.parse with a schema refinement,  *)
(* a validation callback, a version and the exit of the process            *)

\* a version given with version()
version1 == <<"1", ".", "0">>

\* { st: string of at least 2 characters, optional; fl: boolean, optional }
\* args: p1 string (optional); with and without validation() and version();
\* the tokens include the empty string, "-=" and a value with a line break
Declaration6 ==
    [options |-> <<
        InternalOption(st, "string", undefinedAlias, FALSE, FALSE, FALSE, vUndefined),
        InternalOption(fl, "boolean", undefinedAlias, FALSE, FALSE, FALSE, vUndefined)>>,
     positionalArgs |-> <<
        InternalPositionalArgument(<<"p", "1">>, "string", FALSE, FALSE)>>,
     shape |-> <<Refinement(st, 2)>>,
     tokens |-> {
        <<"-", "-">>, <<"-", "h">>, <<"-", "V">>, <<"-", "-", "s", "t">>,
        <<"-", "-", "f", "l">>, <<"v">>, <<"v", "v">>,
        <<>>, <<"-", "=">>, <<"-", "-", "s", "t", "=", "\n">>}]

\* c1 { st: string of at least 2 characters, required } with validation();
\* c2 { fl: boolean, optional } without; with and without version()
CommandDeclaration2 ==
    [commands |-> <<
        InternalCommand(c1,
            <<InternalOption(st, "string", undefinedAlias, FALSE, TRUE, FALSE,
                             vUndefined)>>,
            <<>>),
        InternalCommand(c2,
            <<InternalOption(fl, "boolean", undefinedAlias, FALSE, FALSE, FALSE,
                             vUndefined)>>,
            <<>>)>>,
     shape |-> << <<Refinement(st, 2)>>, <<>> >>,
     validation |-> <<"callback", undefinedValidation>>,
     tokens |-> {
        <<"-", "h">>, <<"-", "V">>, <<"c", "1">>, <<"c", "2">>,
        <<"-", "-", "s", "t">>, <<"-", "-", "f", "l">>, <<"v">>, <<"v", "v">>}]

InitParserRun ==
    /\ options = Declaration6.options
    /\ positionalArgs = Declaration6.positionalArgs
    /\ args \in ArgLists(Declaration6.tokens)
    /\ state = initialState
    /\ pc = "parse"
    /\ commands = <<>>
    /\ shape = Declaration6.shape
    /\ validation \in {undefinedValidation, "callback"}

InitCommandsRun ==
    /\ options = <<>>
    /\ positionalArgs = <<>>
    /\ args \in ArgLists(CommandDeclaration2.tokens)
    /\ state = initialState
    /\ pc = "search"
    /\ commands = CommandDeclaration2.commands
    /\ shape = CommandDeclaration2.shape
    /\ validation = CommandDeclaration2.validation

InitRun ==
    /\ InitParserRun \/ InitCommandsRun
    /\ version \in {undefinedVersion, version1}
    /\ searchResult = initialSearch
    /\ result = noResult
    /\ blocks = <<>>
    /\ validationCalls = 0
    /\ actionCalls = <<>>
    /\ exit = noExit

NextRun ==
    \/ Next
    \/ NextCommands
    \/ handleAndExit

SpecRun == InitRun /\ [][NextRun]_vars

\* an iteration of the loop of parse() or of parseToFindCommand, or the end
\* of the loop
loopStep ==
    \/ parseDoubleDash
    \/ parseHelp
    \/ parseVersion
    \/ parseOption
    \/ parsePositional
    \/ parsePositionalAfterDoubleDash
    \/ parseReturn
    \/ noCommandSpecified
    \/ findHelp
    \/ findVersion
    \/ findCommandName
    \/ findUnknown

\* the argument lists of the loops: tokens of Declaration6 and of
\* CommandDeclaration2
ParserLoopTokens ==
    {<<"-", "-">>, <<"-", "h">>, <<"-", "V">>, <<"-", "-", "s", "t">>,
     <<"-", "-", "f", "l">>, <<"v">>}
CommandLoopTokens ==
    {<<"-", "h">>, <<"-", "V">>, <<"c", "1">>, <<"v">>}

InitLoops ==
    /\ \/ /\ options = Declaration6.options
          /\ positionalArgs = Declaration6.positionalArgs
          /\ args \in ArgLists(ParserLoopTokens)
          /\ pc = "parse"
          /\ commands = <<>>
          /\ shape = Declaration6.shape
          /\ validation = undefinedValidation
       \/ /\ options = <<>>
          /\ positionalArgs = <<>>
          /\ args \in ArgLists(CommandLoopTokens)
          /\ pc = "search"
          /\ commands = CommandDeclaration2.commands
          /\ shape = CommandDeclaration2.shape
          /\ validation = CommandDeclaration2.validation
    /\ state = initialState
    /\ version = undefinedVersion
    /\ searchResult = initialSearch
    /\ result = noResult
    /\ blocks = <<>>
    /\ validationCalls = 0
    /\ actionCalls = <<>>
    /\ exit = noExit

\* the loops are not suspended: the program is sequential, an iteration that
\* can run does run
SpecLoops == InitLoops /\ [][loopStep]_vars /\ WF_vars(loopStep)

-----------------------------------------------------------------------------
(* State machine: the calls of the builders Parser and CommandParser       *)

\* names given to options() and args(): three that match the pattern of
\* identifiers, two that do not
na == <<"a">>
nb == <<"b">>
nbDash == <<"b", "-">>
nDashA == <<"-", "a">>
nEmpty == <<>>
nc == <<"c">>

builderOption(name, alias) ==
    InternalOption(name, "string", alias, FALSE, FALSE, FALSE, vUndefined)

\* the options that an options() call is given
BuilderOptions ==
    {builderOption(na, undefinedAlias), builderOption(nb, undefinedAlias),
     builderOption(nbDash, undefinedAlias), builderOption(nDashA, undefinedAlias),
     builderOption(nEmpty, undefinedAlias), builderOption(na, <<"x">>),
     builderOption(nb, <<"-">>)}

\* the positional arguments that an args() call is given
BuilderPositionalArgs ==
    {InternalPositionalArgument(na, "string", FALSE, TRUE),
     InternalPositionalArgument(nb, "string", FALSE, TRUE),
     InternalPositionalArgument(nb, "string", TRUE, TRUE),
     InternalPositionalArgument(nc, "string", TRUE, TRUE),
     InternalPositionalArgument(nDashA, "string", FALSE, TRUE)}

\* the argument of options(): an object, so its keys are distinct
OptionObjects ==
    {o \in UNION {[1..n -> BuilderOptions] : n \in 0..MaxFields} :
        \A i, j \in 1..Len(o) : i # j => o[i].name # o[j].name}

\* the argument of args(): an array
PositionalArrays == UNION {[1..n -> BuilderPositionalArgs] : n \in 0..MaxFields}

\* the commands given to subcommand()
BuilderCommands ==
    {InternalCommand(c1, <<>>, <<>>), InternalCommand(c2, <<>>, <<>>),
     InternalCommand(c1, <<builderOption(na, undefinedAlias)>>, <<>>)}

\* parser()
InitBuilder ==
    /\ options = <<>>
    /\ positionalArgs = <<>>
    /\ commands = <<>>
    /\ pc = "parser"
    /\ result = noResult
    /\ args = <<>>
    /\ state = initialState
    /\ blocks = <<>>
    /\ searchResult = initialSearch
    /\ shape = <<>>
    /\ validation = undefinedValidation
    /\ version = undefinedVersion
    /\ validationCalls = 0
    /\ actionCalls = <<>>
    /\ exit = noExit

\* the call threw e: the builder is as before
thrown(e) == [type |-> "throw", parsed |-> <<>>, error |-> e]

\* Parser.options(newOptions)
callOptions ==
    /\ pc = "parser"
    /\ \E newOptions \in OptionObjects :
          IF validateParamOptionsAndPositionalArguments(newOptions, positionalArgs)
                 # NoError
          THEN /\ result' = thrown(validateParamOptionsAndPositionalArguments(
                                       newOptions, positionalArgs))
               /\ UNCHANGED options
          ELSE /\ options' = newOptions
               /\ result' = noResult
    /\ UNCHANGED <<positionalArgs, commands, pc, args, state, blocks, searchResult>>
    /\ UNCHANGED <<config, effects>>

\* Parser.args(newPositionalArgs)
callArgs ==
    /\ pc = "parser"
    /\ \E newPositionalArgs \in PositionalArrays :
          IF validateParamOptionsAndPositionalArguments(options, newPositionalArgs)
                 # NoError
          THEN /\ result' = thrown(validateParamOptionsAndPositionalArguments(
                                       options, newPositionalArgs))
               /\ UNCHANGED positionalArgs
          ELSE /\ positionalArgs' = newPositionalArgs
               /\ result' = noResult
    /\ UNCHANGED <<options, commands, pc, args, state, blocks, searchResult>>
    /\ UNCHANGED <<config, effects>>

\* Parser.subcommand(command)
callSubcommand ==
    /\ pc = "parser"
    /\ \E command \in BuilderCommands :
          IF subcommandError(options, positionalArgs) # NoError
          THEN /\ result' = thrown(subcommandError(options, positionalArgs))
               /\ UNCHANGED <<commands, pc>>
          ELSE /\ commands' = <<command>>
               /\ pc' = "commandParser"
               /\ result' = noResult
    /\ UNCHANGED <<options, positionalArgs, args, state, blocks, searchResult>>
    /\ UNCHANGED <<config, effects>>

\* CommandParser.subcommand(command)
addSubcommand ==
    /\ pc = "commandParser"
    /\ \E command \in BuilderCommands :
          IF duplicatedCommand(commands, command) # NoError
          THEN /\ result' = thrown(duplicatedCommand(commands, command))
               /\ UNCHANGED commands
          ELSE /\ commands' = Append(commands, command)
               /\ result' = noResult
    /\ UNCHANGED <<options, positionalArgs, pc, args, state, blocks, searchResult>>
    /\ UNCHANGED <<config, effects>>

NextBuilder ==
    \/ callOptions
    \/ callArgs
    \/ callSubcommand
    \/ addSubcommand

SpecBuilder == InitBuilder /\ [][NextBuilder]_vars

-----------------------------------------------------------------------------
(* Properties                                                              *)

\* the tokens held by a list of positional candidates, in order
positionalTokens(candidates) ==
    flat([i \in 1..Len(candidates) |->
             IF candidates[i].value.k = "array" THEN candidates[i].value.a
             ELSE <<candidates[i].value.s>>])

\* an iteration of the traversal loop is about to run
inLoop == pc = "parse" /\ state.index <= Len(args)

twice == ParseError("Positional arguments specified twice", <<>>)

\* C1: when a positional block has been collected and the loop starts another
\* one (a non-option-like token, or any token after "--"), parse() fails with
\* "Positional arguments specified twice"; so at most one block is ever
\* collected and the tokens of the positional candidates are one contiguous
\* run of args.
C1_SinglePositionalBlock ==
    /\ [][(/\ inLoop
           /\ blocks # <<>>
           /\ parseBranch(state, args, options) \in
                  {"positional", "positionalAfterDoubleDash"})
          => (pc' = "done" /\ result'.type = "error" /\ result'.error = twice)]_vars
    /\ [](/\ Len(blocks) <= 1
          /\ blocks = <<>> => state.positionalCandidates = <<>>
          /\ blocks # <<>> =>
                 positionalTokens(state.positionalCandidates)
                     = SubSeq(args, blocks[1][1], blocks[1][2]))

C1_Witness ==
    /\ pc = "done" /\ result.type = "error" /\ result.error = twice
    /\ Len(blocks) = 1
    /\ state.candidates # <<>>

\* position of the first "--" of args, 0 when there is none
firstDoubleDash == findIndex(args, LAMBDA a : a = <<"-", "-">>)

\* C2: the first "--" of the argument list is consumed as a boundary marker
\* and is never a token of a positional candidate, also when it directly
\* follows a positional token.
C2_DoubleDashNeverPositional ==
    \A i \in 1..Len(blocks) :
        ~(blocks[i][1] <= firstDoubleDash /\ firstDoubleDash <= blocks[i][2])

tooMany == ParseError("Too many positional arguments", <<>>)

\* what the iteration after "--" does when it succeeds: all remaining tokens
\* go, verbatim and in order, to the positional fields in declaration order
assignsRemaining ==
    /\ positionalTokens(state'.positionalCandidates)
           = SubSeq(args, state.index, Len(args))
    /\ state'.index = Len(args) + 1
    /\ \A i \in 1..Len(state'.positionalCandidates) :
           state'.positionalCandidates[i].name = positionalArgs[i].name

stopsLike(i, isHelp, isVersion) ==
    LET p == parse(SubSeq(args, 1, i - 1), options, positionalArgs)
    IN  p.error = NoError =>
            /\ pc' = "parsed"
            /\ state'.candidates = p.state.candidates
            /\ state'.positionalCandidates = p.state.positionalCandidates
            /\ state'.isHelp = isHelp
            /\ state'.isVersion = isVersion

noDoubleDash(i) == \A j \in 1..(i - 1) : args[j] # <<"-", "-">>

noHelpOrVersion(i) ==
    \A j \in 1..(i - 1) : ~isHelpOption(args[j]) /\ ~isVersionOption(args[j])

\* C4 as stated: for every prefix P without "--" for which parse(P) succeeds,
\* parse(P ++ [h] ++ S) returns the candidates of parse(P) with isHelp = true
\* for h in {-h, --help}, and with isVersion = true for h in {-V, --version}.
C4_Original ==
    [][(pc = "parse" /\ pc' # "parse")
       => \A i \in 1..Len(args) :
              /\ (isHelpOption(args[i]) /\ noDoubleDash(i))
                     => stopsLike(i, TRUE, state'.isVersion)
              /\ (isVersionOption(args[i]) /\ noDoubleDash(i))
                     => stopsLike(i, state'.isHelp, TRUE)]_vars

\* C4 amended: the same for every prefix P that contains no "--" and no
\* help or version token; the traversal then stops at h with only that flag
\* set and S is never examined.
C4_HelpStopsTraversal ==
    [][(pc = "parse" /\ pc' # "parse")
       => \A i \in 1..Len(args) :
              /\ (isHelpOption(args[i]) /\ noDoubleDash(i) /\ noHelpOrVersion(i))
                     => (stopsLike(i, TRUE, FALSE)
                         /\ (pc' = "parsed" => state'.index = i))
              /\ (isVersionOption(args[i]) /\ noDoubleDash(i) /\ noHelpOrVersion(i))
                     => (stopsLike(i, FALSE, TRUE)
                         /\ (pc' = "parsed" => state'.index = i))]_vars

C4_Witness ==
    /\ pc = "parsed" /\ state.isHelp
    /\ state.index < Len(args)
    /\ state.candidates # <<>>
    /\ noDoubleDash(state.index) /\ noHelpOrVersion(state.index)

\* the candidates produced for the option called name
candidatesOf(name) == filter(state.candidates, LAMBDA c : c.name = name)

\* validate() is about to run on the Parsed value
validating == pc = "parsed" /\ ~state.isHelp /\ ~state.isVersion

\* the tokens before the first "--" (all of them when there is none)
beforeDoubleDash ==
    {args[i] : i \in 1..(IF firstDoubleDash = 0 THEN Len(args) ELSE firstDoubleDash - 1)}

booleanOptions ==
    {options[n] : n \in {m \in 1..Len(options) :
                            options[m].type = "boolean" /\ options[m].hasDefault}}

\* C5: for a boolean option with default D, a match gives D when the arguments
\* contain neither --<name>, -<alias> nor --no-<name>, true for the bare
\* flag and false for --no-<name>; and --<name>=x is rejected for any x with
\* "Boolean option '<name>' does not need value: <name>".
C5_BooleanFlag ==
    /\ [](pc = "done" /\ result.type = "match" =>
            \A o \in booleanOptions :
                LET long == <<"-", "-">> \o o.name
                    short == <<"-">> \o o.alias
                    no == <<"-", "-", "n", "o", "-">> \o o.name
                    value == mapGet(result.parsed, o.name)
                IN  /\ (\A i \in 1..Len(args) :
                            args[i] # long /\ args[i] # no
                            /\ (o.alias # undefinedAlias => args[i] # short))
                           => value = o.defaultValue
                    /\ (long \in beforeDoubleDash
                            \/ (o.alias # undefinedAlias /\ short \in beforeDoubleDash))
                           => value = vBoolean(TRUE)
                    /\ no \in beforeDoubleDash => value = vBoolean(FALSE))
    /\ [][(inLoop /\ parseBranch(state, args, options) = "option")
          => \A o \in booleanOptions :
                 startsWith(args[state.index], <<"-", "-">> \o o.name \o <<"=">>)
                     => /\ pc' = "done"
                        /\ result'.type = "error"
                        /\ result'.error =
                               ParseError("Boolean option '<name>' does not need value: <name>",
                                          o.name)]_vars

nonBooleanOptions ==
    {options[n] : n \in {m \in 1..Len(options) : options[m].type # "boolean"}}

\* C6: every use of --no-<name> for a non-boolean option (followed by a value
\* token, with =value, or without any value) is rejected with "Non boolean
\* option '<name>' does not accept --no- prefix: <name>".
C6_NegatedNonBoolean ==
    [][(inLoop /\ parseBranch(state, args, options) = "option")
       => \A o \in nonBooleanOptions :
              splitEq0(args[state.index]) = <<"-", "-", "n", "o", "-">> \o o.name
                  => /\ pc' = "done"
                     /\ result'.type = "error"
                     /\ result'.error =
                            ParseError("Non boolean option '<name>' does not accept --no- prefix: <name>",
                                       o.name)]_vars

arrayOptions == {options[n] : n \in {m \in 1..Len(options) : options[m].isArray}}

scalarOptions == {options[n] : n \in {m \in 1..Len(options) : ~options[m].isArray}}

\* the value lists of the candidates of an option, concatenated in the order
\* of the candidates
concatenated(candidates) ==
    flat([i \in 1..Len(candidates) |-> candidates[i].value.a])

RECURSIVE splitComma(_)
splitComma(str) ==
    LET comma == findIndex(str, LAMBDA c : c = ",")
    IN  IF str = <<>> THEN <<>>
        ELSE IF comma = 0 THEN <<str>>
        ELSE <<SubSeq(str, 1, comma - 1)>> \o splitComma(SubSeq(str, comma + 2, Len(str)))

optionNamed(name) == options[findIndex(options, LAMBDA o : o.name = name)]

invalidCandidate(c) ==
    ~validateCandidateValue(optionNamed(c.name), c.value, c.isNegative).valid

reorderings(seq) ==
    {[i \in 1..Len(seq) |-> seq[f[i]]] :
        f \in {g \in [1..Len(seq) -> 1..Len(seq)] :
                  \A a, b \in 1..Len(seq) : a # b => g[a] # g[b]}}

\* C9 as stated: on success validate() returns one entry per declared option
\* and one per declared positional field, in declaration order, and the
\* result is the same for every permutation of the option candidates.
C9_Original ==
    validating =>
        LET v == validate(state, options, positionalArgs)
        IN  v.error = NoError =>
                /\ namesOf(v.options) = namesOf(options)
                /\ namesOf(v.positionalArgs) = namesOf(positionalArgs)
                /\ \A p \in reorderings(state.candidates) :
                       validate([state EXCEPT !.candidates = p], options, positionalArgs) = v

\* C9 amended: on success validate() returns one entry per declared option
\* and one per declared positional field, in declaration order, for every
\* permutation of the option candidates; the permutation changes no value
\* except that of an array-kind option given more than once, which is the
\* concatenation of its value lists in the order of the candidates.
C9_DeclarationOrder ==
    validating =>
        LET v == validate(state, options, positionalArgs)
        IN  v.error = NoError =>
                \A p \in reorderings(state.candidates) :
                    LET w == validate([state EXCEPT !.candidates = p], options,
                                      positionalArgs)
                    IN  /\ w.error = NoError
                        /\ namesOf(w.options) = namesOf(options)
                        /\ namesOf(w.positionalArgs) = namesOf(positionalArgs)
                        /\ w.positionalArgs = v.positionalArgs
                        /\ \A n \in 1..Len(options) :
                               IF options[n].isArray
                                      /\ Len(candidatesOf(options[n].name)) > 1
                               THEN w.options[n].value.a =
                                        concatenated(filter(p,
                                            LAMBDA c : c.name = options[n].name))
                               ELSE w.options[n] = v.options[n]

C9_Witness ==
    /\ pc = "matched"
    /\ Len(state.candidates) = 2
    /\ state.candidates[1].name = nu /\ state.candidates[2].name = ar
    /\ namesOf(result.parsed) = namesOf(options) \o namesOf(positionalArgs)

missingOptions ==
    {options[n] : n \in {m \in 1..Len(options) : candidatesOf(options[m].name) = <<>>}}

missingPositionalArgs ==
    {positionalArgs[n] : n \in {m \in 1..Len(positionalArgs) :
        \A i \in 1..Len(state.positionalCandidates) :
            state.positionalCandidates[i].name # positionalArgs[m].name}}

\* C10: for a declared field without candidate, validation fails when the
\* field is required, with "Required option is missing: <name>" for an option
\* and "Required argument is missing: <name>" for a positional field;
\* otherwise the field is in the result with an absent value.
C10_MissingField ==
    [][(validating /\ pc' # pc)
       => /\ \A o \in missingOptions :
                 IF o.required
                 THEN /\ pc' = "done" /\ result'.type = "error"
                      /\ result'.error.arg = o.name
                             => result'.error.message = "Required option is missing: <arg>"
                 ELSE pc' = "matched" => mapGet(result'.parsed, o.name) = vUndefined
          /\ \A a \in missingPositionalArgs :
                 IF a.required
                 THEN /\ pc' = "done" /\ result'.type = "error"
                      /\ result'.error.arg = a.name
                             => result'.error.message = "Required argument is missing: <arg>"
                 ELSE pc' = "matched" => mapGet(result'.parsed, a.name) = vUndefined]_vars

-----------------------------------------------------------------------------
(* Properties of short options, clusters and positional blocks             *)

\* the token the traversal loop is about to read
currentArg == args[state.index]

\* a token that starts with one dash only
singleDash(arg) == startsWith(arg, <<"-">>) /\ ~startsWith(arg, <<"-", "-">>)

\* position in options of the option whose alias is r, 0 when there is none
aliasIndex(r) ==
    findIndex(options, LAMBDA o : o.alias # undefinedAlias /\ o.alias = r)

\* the loop is about to read an option-like token with a single dash
atShortOption ==
    /\ inLoop
    /\ parseBranch(state, args, options) = "option"
    /\ singleDash(currentArg)

\* the candidates added by the step
addedCandidates ==
    SubSeq(state'.candidates, Len(state.candidates) + 1, Len(state'.candidates))

\* the tokens after the current one up to the first option-like token
followingRun ==
    pickNextNonOptionArgumentCandidates(slice(args, state.index), options)

needsValue(name) == ParseError("Option '<name>' needs value: <name>", name)

\* every character of text is a declared alias and the first one is the
\* alias of a boolean option
booleanLedCluster(text) ==
    /\ text # <<>>
    /\ \A i \in 1..Len(text) : aliasIndex(<<text[i]>>) # 0
    /\ options[aliasIndex(<<text[1]>>)].type = "boolean"

\* the names of the boolean options of the characters of text, in order
booleanNames(text) ==
    namesOf(SelectSeq([i \in 1..Len(text) |-> options[aliasIndex(<<text[i]>>)]],
                      LAMBDA o : o.type = "boolean"))

\* a token without exact alias is a cluster: every boolean alias of a
\* cluster led by a boolean alias yields one candidate, in character order
clusterExpands ==
    (/\ atShortOption
     /\ aliasIndex(Tail(currentArg)) = 0
     /\ booleanLedCluster(Tail(currentArg)))
    => /\ pc' = "parse"
       /\ namesOf(SelectSeq(addedCandidates,
              LAMBDA c : options[findIndex(options, LAMBDA o : o.name = c.name)].type
                             = "boolean"))
              = booleanNames(Tail(currentArg))

\* C11 as stated: a single-dash token whose remainder is a declared alias
\* yields exactly one candidate, for that option, and a token without exact
\* alias is expanded character by character.
C11_Original ==
    [][/\ (atShortOption /\ aliasIndex(Tail(currentArg)) # 0)
          => /\ pc' = "parse"
             /\ Len(addedCandidates) = 1
             /\ addedCandidates[1].name = options[aliasIndex(Tail(currentArg))].name
       /\ clusterExpands]_vars

\* C11 amended: a single-dash token whose remainder is a declared alias is
\* never expanded: it yields exactly one candidate, for that option, or,
\* when that option requires a value and no token that is not option-like
\* follows, fails with "Option '<name>' needs value"; a token without exact
\* alias is expanded character by character.
C11_ExactAliasNotExpanded ==
    [][/\ (atShortOption /\ aliasIndex(Tail(currentArg)) # 0)
          => LET option == options[aliasIndex(Tail(currentArg))]
             IN  IF optionRequiresValue(option) /\ followingRun = <<>>
                 THEN /\ pc' = "done"
                      /\ result'.error = needsValue(option.name)
                      /\ state'.candidates = state.candidates
                 ELSE /\ pc' = "parse"
                      /\ Len(addedCandidates) = 1
                      /\ addedCandidates[1].name = option.name
                      /\ ~addedCandidates[1].isNegative
       /\ clusterExpands]_vars

C11_Witness ==
    /\ pc = "parsed"
    /\ args = << <<"-", "a", "b">>, <<"v">>, <<"-", "b", "a">> >>
    /\ state.candidates = << Candidate(oc, stringValue(<<"v">>), FALSE),
                             Candidate(ob, undefinedValue, FALSE),
                             Candidate(oa, undefinedValue, FALSE) >>

\* position i of text holds the alias of an option that requires a value and
\* gets none: it is neither first nor last, or it is last and no token that
\* is not option-like follows
valuelessAt(text, i) ==
    /\ i > 1
    /\ optionRequiresValue(options[aliasIndex(<<text[i]>>)])
    /\ i < Len(text) \/ followingRun = <<>>

\* C12: a cluster in which the alias of an option that requires a value
\* stands at a non-first position without receiving a value is rejected with
\* a ParseError; the step never succeeds with candidates that omit the option.
C12_ValuelessClusterRejected ==
    [][(/\ atShortOption
        /\ aliasIndex(Tail(currentArg)) = 0
        /\ booleanLedCluster(Tail(currentArg))
        /\ \E i \in 1..Len(Tail(currentArg)) : valuelessAt(Tail(currentArg), i))
       => (pc' = "done" /\ result'.error.class = "ParseError")]_vars

\* the loop is about to read, before any "--", a token -xREST without "=",
\* REST not empty, xREST not a declared alias and x the alias of an option
\* that requires a value
atInlineValue ==
    /\ inLoop
    /\ ~state.hasDoubleDash
    /\ singleDash(currentArg)
    /\ Len(currentArg) >= 3
    /\ indexOfEq(currentArg) = 0
    /\ aliasIndex(Tail(currentArg)) = 0
    /\ aliasIndex(<<currentArg[2]>>) # 0
    /\ optionRequiresValue(options[aliasIndex(<<currentArg[2]>>)])

\* the step yields one candidate, the option of x with value REST, consumes
\* the token alone and leaves the rest of the state as it is
inlineValueTaken ==
    /\ pc' = "parse"
    /\ addedCandidates =
           << Candidate(options[aliasIndex(<<currentArg[2]>>)].name,
                        stringValue(slice(currentArg, 2)), FALSE) >>
    /\ state' = [state EXCEPT !.candidates = state'.candidates,
                              !.index = state.index + 1]

\* C13 as stated: every token -xREST (REST not empty, no "=", xREST not a
\* declared alias, x the alias of an option that requires a value) yields
\* exactly one candidate, x's option with value REST, and consumes exactly
\* that token.
C13_Original ==
    [][atInlineValue => inlineValueTaken]_vars

\* C13 amended: the same for the tokens -xREST whose xREST is not a numeric
\* literal.
C13_InlineValue ==
    [][(atInlineValue /\ ~isNumericValue(Tail(currentArg))) => inlineValueTaken]_vars

C13_Witness ==
    /\ pc = "parsed"
    /\ args = << <<"-", "s", "b">>, <<"v">> >>
    /\ state.candidates = << Candidate(os, stringValue(<<"b">>), FALSE) >>
    /\ state.positionalCandidates # <<>>

\* the current token names an option by its long name without "="
longReference ==
    /\ startsWith(currentArg, <<"-", "-">>)
    /\ indexOfEq(currentArg) = 0
    /\ findOptionByPrefixedName(options, currentArg).found

\* the current token is a dash and a declared alias
aliasReference == singleDash(currentArg) /\ aliasIndex(Tail(currentArg)) # 0

\* the current token is a cluster whose last character is reached
clusterReference ==
    /\ singleDash(currentArg)
    /\ aliasIndex(Tail(currentArg)) = 0
    /\ booleanLedCluster(Tail(currentArg))

\* the option named by the current token, and whether by its --no- form
referencedOption ==
    IF longReference THEN findOptionByPrefixedName(options, currentArg).option
    ELSE IF aliasReference THEN options[aliasIndex(Tail(currentArg))]
    ELSE options[aliasIndex(<<currentArg[Len(currentArg)]>>)]

referencedNegative ==
    longReference /\ findOptionByPrefixedName(options, currentArg).isNegative

\* number of tokens after the current one that precede the first token
\* likesOptionArg classifies as option-like
runLength ==
    CHOOSE k \in 0..(Len(args) - state.index) :
        /\ \A j \in 1..k : ~likesOptionArg(args[state.index + j], options)
        /\ \/ state.index + k = Len(args)
           \/ likesOptionArg(args[state.index + k + 1], options)

\* the step succeeds, consumes the current token and n following ones, and
\* its last candidate is c
consumes(n, c) ==
    /\ pc' = "parse"
    /\ state'.index = state.index + 1 + n
    /\ addedCandidates # <<>>
    /\ addedCandidates[Len(addedCandidates)] = c

numericDash(arg) ==
    /\ singleDash(arg)
    /\ isNumericValue(Tail(splitEq0(arg)))
    /\ aliasIndex(Tail(splitEq0(arg))) = 0

\* the value of candidate c is the token arg, or a list that starts with it
valueStartsWith(c, arg) ==
    IF c.value.k = "array" THEN c.value.a # <<>> /\ c.value.a[1] = arg
    ELSE c.value = stringValue(arg)

\* C15: a single-dash token -r is not option-like exactly when r (before any
\* "=") is a numeric literal and no declared alias equals r; "--" is never
\* option-like and every other token whose part before "=" starts with "--"
\* is; a token that is not option-like in this way is read by the loop as a
\* positional token, and after an option that requires a value it becomes
\* that option's value.
C15_NumericDash ==
    [][/\ \A i \in 1..Len(args) :
              /\ singleDash(args[i])
                    => (~likesOptionArg(args[i], options) <=> numericDash(args[i]))
              /\ args[i] = <<"-", "-">> => ~likesOptionArg(args[i], options)
              /\ (startsWith(splitEq0(args[i]), <<"-", "-">>) /\ args[i] # <<"-", "-">>)
                    => likesOptionArg(args[i], options)
       /\ (inLoop /\ numericDash(currentArg))
             => /\ parseBranch(state, args, options)
                       \in {"positional", "positionalAfterDoubleDash"}
                /\ \/ pc' = "done" /\ result'.error # NoError
                   \/ /\ pc' = "parse"
                      /\ state.positionalCandidates = <<>>
                      /\ positionalTokens(state'.positionalCandidates)[1] = currentArg
       /\ (/\ inLoop
           /\ parseBranch(state, args, options) = "option"
           /\ longReference \/ aliasReference \/ clusterReference
           /\ referencedOption.type # "boolean"
           /\ ~referencedNegative
           /\ state.index < Len(args)
           /\ numericDash(args[state.index + 1]))
             => /\ pc' = "parse"
                /\ addedCandidates # <<>>
                /\ valueStartsWith(addedCandidates[Len(addedCandidates)],
                                   args[state.index + 1])]_vars

C15_Witness ==
    /\ pc = "parsed"
    /\ args = << <<"-", "2">>, <<"-", "n">>, <<"-", ".", "5">> >>
    /\ positionalTokens(state.positionalCandidates) = << <<"-", "2">> >>
    /\ state.candidates =
           << Candidate(on, arrayValue(<< <<"-", ".", "5">> >>), FALSE) >>

\* number of tokens of the positional block that starts at the current
\* token: all remaining tokens after "--", else those before the first
\* option-like token
blockLength ==
    IF state.hasDoubleDash THEN Len(args) - state.index + 1
    ELSE CHOOSE k \in 0..(Len(args) - state.index + 1) :
             /\ \A j \in 0..(k - 1) : ~likesOptionArg(args[state.index + j], options)
             /\ \/ state.index + k > Len(args)
                \/ likesOptionArg(args[state.index + k], options)

\* position of the first array-kind positional field, 0 when there is none
arrayPosition == findIndex(positionalArgs, LAMBDA p : p.isArray)

\* C16: within a positional block of k tokens and n declared fields, token i
\* goes to the i-th field in declaration order, an array-kind field receives
\* all tokens from its position to the end of the block, fields beyond the
\* k-th receive no candidate, and parse() fails with "Too many positional
\* arguments" when k > n and no field is array-kind.
C16_PositionalAssignment ==
    [][(/\ inLoop
        /\ parseBranch(state, args, options)
               \in {"positional", "positionalAfterDoubleDash"}
        /\ state.positionalCandidates = <<>>)
       => LET k == blockLength
              n == Len(positionalArgs)
              a == arrayPosition
              m == IF a # 0 /\ a <= k THEN a ELSE IF k < n THEN k ELSE n
          IN  IF k > n /\ a = 0
              THEN pc' = "done" /\ result'.error = tooMany
              ELSE /\ pc' = "parse"
                   /\ state'.index = state.index + k
                   /\ Len(state'.positionalCandidates) = m
                   /\ \A i \in 1..m :
                         state'.positionalCandidates[i] =
                            IF positionalArgs[i].isArray
                            THEN PositionalCandidate(positionalArgs[i].name,
                                     arrayValue(SubSeq(args, state.index + i - 1,
                                                       state.index + k - 1)))
                            ELSE PositionalCandidate(positionalArgs[i].name,
                                     stringValue(args[state.index + i - 1]))]_vars

C16_Witness ==
    /\ pc = "parsed"
    /\ args = << <<"-", "2">>, <<"-", ".", "5">>, <<"-", "1", "2">> >>
    /\ state.positionalCandidates =
           << PositionalCandidate(<<"p", "1">>, stringValue(<<"-", "2">>)),
              PositionalCandidate(<<"p", "r">>,
                  arrayValue(<< <<"-", ".", "5">>, <<"-", "1", "2">> >>)) >>

-----------------------------------------------------------------------------
(* Properties of the multi-command search                                  *)

\* the loop of parseToFindCommand is about to read a token
inSearch == pc = "search" /\ Len(args) # 0 /\ searchResult.index <= Len(args)

searchArg == args[searchResult.index]

isCommandName(arg) == includes(commandNames(commands), arg)

globalHelp == generateParseHelp(commands, 0)

commandHelp(name) == generateParseHelp(commands, findCommand(commands, name))

\* C17: in the command search, a token read before a command is selected that
\* is neither -h/--help, -V/--version nor a declared command name ends the
\* parse with the error "Unknown argument: <token>" without commandName, and
\* nothing runs after that result: no action of a command is called.
C17_UnknownArgument ==
    [][/\ pc # "done"
       /\ (/\ inSearch
           /\ ~isHelpOption(searchArg)
           /\ ~isVersionOption(searchArg)
           /\ ~isCommandName(searchArg))
             => /\ pc' = "done"
                /\ result'.type = "error"
                /\ result'.error = ParseError("Unknown argument: <arg>", searchArg)
                /\ result'.exitCode = 1
                /\ result'.commandName = <<>>]_vars

C17_Witness ==
    /\ pc = "done"
    /\ args = << <<"-", "h">>, <<"-", "-", "f", "l">>, <<"c", "1">> >>
    /\ result.type = "error"
    /\ result.error = ParseError("Unknown argument: <arg>", <<"-", "-", "f", "l">>)

helpResult(name) ==
    [type |-> "help", help |-> IF name = <<>> THEN globalHelp ELSE commandHelp(name),
     exitCode |-> 0, commandName |-> name]

\* C19: a help token alone gives the global help result without commandName;
\* a help token followed by a declared command c, and c followed by a help
\* token, both give the help result with commandName c and the help text of
\* c; in the three cases the candidates are empty and no action runs.
C19_HelpResults ==
    /\ (Len(args) = 1 /\ isHelpOption(args[1]))
          => /\ pc \in {"search", "found", "parsedCommands", "done"}
             /\ state.candidates = <<>> /\ state.positionalCandidates = <<>>
             /\ pc = "done" => result = helpResult(<<>>)
    /\ (Len(args) = 2 /\ isHelpOption(args[1]) /\ isCommandName(args[2]))
          => /\ pc \in {"search", "found", "parsedCommands", "done"}
             /\ state.candidates = <<>> /\ state.positionalCandidates = <<>>
             /\ pc = "done" => result = helpResult(args[2])
    /\ (Len(args) = 2 /\ isCommandName(args[1]) /\ isHelpOption(args[2]))
          => /\ pc \in {"search", "found", "parsedCommands", "done"}
             /\ state.candidates = <<>> /\ state.positionalCandidates = <<>>
             /\ pc = "done" => result = helpResult(args[1])

C19_Witness ==
    /\ pc = "done"
    /\ args = << <<"-", "-", "h", "e", "l", "p">>, <<"c", "2">> >>
    /\ result = helpResult(c2)
    /\ result.help.scope = "command"

versionResult ==
    [type |-> "version", help |-> globalHelp, exitCode |-> 0, commandName |-> <<>>]

\* the search reads a version token
atVersion == inSearch /\ isVersionOption(searchArg)

\* the search stops at the current token
stops ==
    /\ pc' = "found"
    /\ searchResult' = [searchResult EXCEPT !.isVersion = TRUE]

\* C20 as stated: when the search reads -V/--version it stops and the parse
\* results in the global version result, whatever tokens precede or follow.
C20_Original ==
    [][/\ atVersion => stops
       /\ (pc' = "done" /\ searchResult'.isVersion) => result' = versionResult]_vars

\* C20: when the search reads -V/--version it stops, whatever tokens follow;
\* the parse results in the global version result when no -h/--help came
\* before, and in the global help result otherwise.
C20_VersionStops ==
    [][/\ atVersion => stops
       /\ (pc' = "done" /\ searchResult'.isVersion)
             => result' = IF searchResult'.isHelp THEN helpResult(<<>>)
                          ELSE versionResult]_vars

C20_Witness ==
    /\ pc = "done"
    /\ args = << <<"-", "V">>, <<"x">>, <<"c", "1">> >>
    /\ searchResult.index = 1
    /\ result = versionResult

-----------------------------------------------------------------------------
(* Properties of the results, the callbacks and the exit                   *)

\* result r carries the commandName name
hasCommandName(r, name) == "commandName" \in DOMAIN r /\ r.commandName = name

\* result r carries no commandName
noCommandName(r) == "commandName" \notin DOMAIN r \/ r.commandName = <<>>

\* C21: in a multi-command parser an error result produced after a command
\* was selected (by the tokenizer, the validation, the schema check or the
\* validation callback) carries the name and the help text of that command;
\* an error result produced before carries no commandName and the global
\* help text.
C21_ErrorCarriesCommand ==
    (commands # <<>> /\ result.type = "error")
        => IF searchResult.commandName # <<>>
           THEN /\ hasCommandName(result, searchResult.commandName)
                /\ result.help = commandHelp(searchResult.commandName)
           ELSE /\ noCommandName(result)
                /\ result.help = globalHelp

\* the step calls a validation callback
validationCalled == validationCalls' # validationCalls

\* the refinements the schema check of the current parse uses
usedShape ==
    IF commands = <<>> THEN shape
    ELSE shape[findCommand(commands, result.commandName)]

ended ==
    \/ pc = "exit"
    \/ pc = "action"
    \/ pc = "done" /\ result.type \in {"match", "throw"}

\* what the process wrote and how it exited, for the result it ended with
exitBehaviour ==
    /\ exit.exited => ended
    /\ (ended /\ result.type = "match") => exit = noExit
    /\ (ended /\ result.type = "help")
          => exit = [exited |-> TRUE, code |-> 0, stdout |-> <<result.help>>,
                     stderr |-> <<>>]
    /\ (ended /\ result.type = "version")
          => exit = [exited |-> TRUE, code |-> 0,
                     stdout |-> <<IF version = undefinedVersion
                                  THEN <<"n", "o", "n", "e">> ELSE version>>,
                     stderr |-> <<>>]
    /\ (ended /\ result.type = "error")
          => exit = [exited |-> TRUE, code |-> 1, stdout |-> <<>>,
                     stderr |-> <<result.error, result.help>>]

\* C23: every parse ends in exactly one of the four outcomes match (no
\* exit), help and version (exit code 0, the version or "none" written) and
\* error (exit code 1, message and help text written to the error stream).
C23_FourOutcomes ==
    [][/\ ~ended
       /\ ended' => result'.type \in {"match", "help", "version", "error"}
       /\ exitBehaviour']_vars

\* a step of the tokenizer or of the validator: parseToFindCommand, parse()
\* and validate()
inTokenizer == pc \in {"search", "found", "parse"}
inValidate == pc \in {"parsed", "parsedCommands"}
failed == pc = "done" /\ result.type \notin {"help", "version"}

\* C24: a failure of the tokenizer or of the validator is a ParseError that
\* the parser turns into an error result, nothing else is thrown out of
\* parse(), and the tokenizer does not fail on the empty argument list.
C24_OnlyParseErrors ==
    [][/\ ((inTokenizer \/ inValidate) /\ failed')
             => /\ result'.type = "error"
                /\ result'.error.class = "ParseError"
       /\ (pc = "parse" /\ args = <<>>) => pc' = "parsed"]_vars

\* C27: CommandParser.parse calls the action of one command only, the one
\* named by the command token that the search selected, once, with the
\* values that passed the schema check and the validation callback, and only
\* for a match; no action is called for a help, version or error result.
C27_ActionOnce ==
    /\ Len(actionCalls) <= 1
    /\ (pc = "action") <=> (actionCalls # <<>>)
    /\ (commands # <<>> /\ ended /\ result.type = "match") => Len(actionCalls) = 1
    /\ result.type \in {"help", "version", "error", "throw"} => actionCalls = <<>>
    /\ actionCalls # <<>> =>
          LET n == findCommand(commands, searchResult.commandName)
          IN  /\ n # 0
              /\ actionCalls[1].name = searchResult.commandName
              /\ \E i \in 1..Len(args) : args[i] = actionCalls[1].name
              /\ result.type = "match"
              /\ actionCalls[1].value = result.parsed
              /\ zodIssue(actionCalls[1].value, shape[n]) = NoError
              /\ validationCalls = (IF validation[n] = undefinedValidation
                                    THEN 0 ELSE 1)

C27_Witness ==
    /\ pc = "action"
    /\ Len(commands) = 2
    /\ actionCalls[1].name = commands[1].name
    /\ mapGet(actionCalls[1].value, st) = vString(<<"v", "v">>)
    /\ validationCalls = 1

\* the declared option that candidate c names
optionOf(c) == options[findIndex(options, LAMBDA opt : opt.name = c.name)]

\* the value of candidate c has the shape of the kind of its option
shapeMatches(c) ==
    IF optionOf(c).type = "boolean" THEN c.value.k = "undefined"
    ELSE IF optionOf(c).isArray THEN c.value.k = "array" /\ Len(c.value.a) >= 1
    ELSE c.value.k = "string"

\* C29: every option candidate that parse() produces has a value of the
\* shape of its option's kind: none for a boolean option, one string for a
\* scalar option that takes a value, a non-empty list of strings for an
\* array option; so validate() never reports "Invalid option value" for an
\* option of type string.
C29_CandidateShapes ==
    /\ \A i \in 1..Len(state.candidates) : shapeMatches(state.candidates[i])
    /\ ~(/\ result.type = "error"
          /\ result.error.message = invalidOptionValue("string"))

\* an iteration of the loop of parse() or of parseToFindCommand is about to
\* run
inParseLoop == pc = "parse" /\ state.index <= Len(args)
inSearchLoop == pc = "search" /\ Len(args) # 0 /\ searchResult.index <= Len(args)

\* C30: parse() and the search for the command terminate: an iteration of
\* either loop throws, stops the loop or moves the index forward by at least
\* one token, never past the end of the argument list, and both loops are
\* left.
C30_Terminates ==
    /\ [][/\ inParseLoop
              => \/ pc' = "done" /\ result'.type \in {"error", "throw"}
                 \/ pc' = "parsed" /\ (state'.isHelp \/ state'.isVersion)
                 \/ /\ pc' = "parse"
                    /\ state'.index >= state.index + 1
                    /\ state'.index <= Len(args) + 1
          /\ inSearchLoop
              => \/ pc' = "done" /\ result'.type \in {"error", "throw"}
                 \/ pc' = "found"
                 \/ /\ pc' = "search"
                    /\ searchResult'.index >= searchResult.index + 1
                    /\ searchResult'.index <= Len(args) + 1]_vars
    /\ <>(pc \notin {"parse", "search"})

C30_Witness ==
    /\ pc = "parse"
    /\ Len(args) = MaxArgs
    /\ state.index = Len(args) + 1
    /\ state.hasDoubleDash
    /\ state.candidates # <<>>
    /\ state.positionalCandidates # <<>>

-----------------------------------------------------------------------------
(* Properties of the builders                                              *)

\* the names of a list of fields are pairwise distinct
distinctNames(fields) ==
    \A i, j \in 1..Len(fields) : i # j => fields[i].name # fields[j].name

\* a value for each field of a list, as validate() returns them
valuesOf(fields) == [i \in 1..Len(fields) |-> entry(fields[i].name, vUndefined)]

\* C25: after any successful options() and args() calls of a Parser, in any
\* order, the names of its options and of its positional arguments match the
\* pattern of identifiers, the positional names are pairwise distinct and no
\* option has the name of a positional argument, so that the merge of the
\* values of both into one object overwrites no field; a call that would
\* break this throws a plain Error and leaves the parser as it was.
C25_BuilderNames ==
    /\ [](/\ \A i \in 1..Len(options) : IdSchema(options[i].name)
          /\ \A i \in 1..Len(positionalArgs) : IdSchema(positionalArgs[i].name)
          /\ distinctNames(positionalArgs)
          /\ \A i \in 1..Len(options) : ~mapHas(positionalArgs, options[i].name)
          /\ Len(objectSpread(valuesOf(options), valuesOf(positionalArgs)))
                = Len(options) + Len(positionalArgs))
    /\ [][result'.type = "throw"
             => /\ result'.error.class = "Error"
                /\ UNCHANGED <<options, positionalArgs, commands, pc>>]_vars

C25_Witness ==
    /\ pc = "parser"
    /\ namesOf(options) = <<na, nbDash>>
    /\ namesOf(positionalArgs) = <<nb, nc>>
    /\ result.type = "throw"
    /\ result.error =
          PlainError("Duplicated option name with positional argument name: <arg>", nb)

\* C26: a parser never holds both fields of its own and commands:
\* Parser.subcommand() throws "Cannot add subcommand to parser with
\* options()." for a parser with an option and "Cannot add subcommand to
\* parser with args()." for one with a positional argument, the
\* CommandParser it returns never gets options or positional arguments of
\* its own, and the names of its commands stay pairwise distinct because
\* adding a name again throws.
C26_FieldsOrCommands ==
    /\ [](/\ commands # <<>> => options = <<>> /\ positionalArgs = <<>>
          /\ (pc = "commandParser") <=> (commands # <<>>)
          /\ distinctNames(commands)
          /\ options # <<>>
                => subcommandError(options, positionalArgs) =
                       PlainError("Cannot add subcommand to parser with options().", <<>>)
          /\ (options = <<>> /\ positionalArgs # <<>>)
                => subcommandError(options, positionalArgs) =
                       PlainError("Cannot add subcommand to parser with args().", <<>>))
    /\ [][/\ pc = "commandParser"
              => /\ pc' = "commandParser"
                 /\ UNCHANGED <<options, positionalArgs>>
                 /\ result'.type = "throw"
                       => /\ UNCHANGED commands
                          /\ result'.error.message = "Duplicated command name: <arg>"
                          /\ \E i \in 1..Len(commands) :
                                 commands[i].name = result'.error.arg
          /\ (pc = "parser" /\ result'.type = "throw"
                 /\ result'.error.message \in
                        {"Cannot add subcommand to parser with options().",
                         "Cannot add subcommand to parser with args()."})
              => /\ options # <<>> \/ positionalArgs # <<>>
                 /\ pc' = "parser" /\ UNCHANGED commands]_vars

C26_Witness ==
    /\ pc = "parser"
    /\ options = <<>>
    /\ positionalArgs # <<>>
    /\ result.type = "throw"
    /\ result.error = PlainError("Cannot add subcommand to parser with args().", <<>>)

\* C28: a list of positional arguments that the library accepted has at most
\* one array argument, and that one is the last of the list.
C28_ArrayLast ==
    \A i \in 1..Len(positionalArgs) :
        positionalArgs[i].isArray => i = Len(positionalArgs)

====
